---- MODULE Spec2Model ----
(***************************************************************************)
(* Alignment result reconstruction of SongTimingService                    *)
(* (src/unnamed/part_003, second copy of the class, lines 512-961) and the *)
(* POST /song-timing handler of src/src/index.ts.                          *)
(*                                                                         *)
(* A string is a sequence of UTF-16 code units (naturals).  A time is a    *)
(* whole number of ticks, OneSecond ticks to the second, so that the       *)
(* divisions of the interpolator are exact on the inputs drawn here.       *)
(***************************************************************************)
EXTENDS Integers, Sequences, FiniteSets, TLC

\* ------------------------------------------------------------------ bounds
\* longest aligner output (number of JSON array elements) drawn
MaxStream == 3
\* most stdout "data" events of one alignment process
MaxChunks == 2
\* most words over all lines handed to the interpolation step alone
MaxWords == 3
\* most lines handed to the interpolation step alone
MaxLines == 2
\* longest lyric line handed to the tokenizer alone
MaxLineLen == 4
\* last value of the millisecond clock
MaxMillis == 1
\* most lyric lines handed to the segmenter alone
MaxSegLines == 3

\* rows of the lyric_line table of the ElevenLabs job
MaxElevenRows == 3
\* most lyric lines fetched by the pipeline
MaxPipeLines == 3
\* rows of the lyric_line table of the Google TTS jobs
MaxCronRows == 3
\* most executions of runJob followed
MaxCronJobs == 2
\* most texts handed to translateBatch
MaxBatch == 3

\* ------------------------------------------------------- program constants
\* first and last code unit of the class [가-힣]
HangulFirst == 44032
HangulLast == 55203
\* the literal 1.0 (seconds) of the default span, in ticks
OneSecond == 60
\* res.status(201) of POST /song-timing
StatusCreated == 201
\* res.status(400) of POST /song-timing
StatusBadRequest == 400
\* the limit runJob passes to fetchLyricsToProcess
FetchLimit == 2
\* res.status(422) and res.status(200) of POST /create-content
StatusUnprocessable == 422
StatusOk == 200
\* first and last code unit of the classes [ㄱ-ㅎ] and [ㅏ-ㅣ] taken together
JamoFirst == 12593
JamoLast == 12643

\* "||LINE_BREAK||"
LINE_SEPARATOR == <<124, 124, 76, 73, 78, 69, 95, 66, 82, 69, 65, 75, 124, 124>>

\* ------------------------------------------------------------ text helpers
\* the character class [가-힣]
IsHangul(c) == c >= HangulFirst /\ c <= HangulLast

\* the character class \s of an ECMAScript regular expression
IsSpace(c) ==
    \/ c \in {9, 10, 11, 12, 13, 32, 160, 5760, 8232, 8233, 8239, 8287, 12288, 65279}
    \/ (c >= 8192 /\ c <= 8202)

\* Array.prototype.join: the strings of parts with sep between neighbours
RECURSIVE JoinStr(_, _)
JoinStr(parts, sep) ==
    IF parts = <<>> THEN <<>>
    ELSE IF Len(parts) = 1 THEN parts[1]
    ELSE parts[1] \o sep \o JoinStr(Tail(parts), sep)

\* length of the maximal run of [^가-힣\s] that starts at position i of text
RECURSIVE RunLen(_, _)
RunLen(text, i) ==
    IF i > Len(text) \/ IsHangul(text[i]) \/ IsSpace(text[i]) THEN 0
    ELSE 1 + RunLen(text, i + 1)

\* a match that takes a whole run of Hangul as one token: /[가-힣]+|[^가-힣\s]+/g
RECURSIVE HangulRunLen(_, _)
HangulRunLen(text, i) ==
    IF i > Len(text) \/ ~IsHangul(text[i]) THEN 0 ELSE 1 + HangulRunLen(text, i + 1)

RECURSIVE MatchTokensRuns(_, _)
MatchTokensRuns(text, i) ==
    IF i > Len(text) THEN <<>>
    ELSE IF IsSpace(text[i]) THEN MatchTokensRuns(text, i + 1)
    ELSE LET n == IF IsHangul(text[i]) THEN HangulRunLen(text, i) ELSE RunLen(text, i)
         IN  <<SubSeq(text, i, i + n - 1)>> \o MatchTokensRuns(text, i + n)

\* text.match(/[가-힣]|[^가-힣\s]+/g) from position i on (<<>> for null)
RECURSIVE MatchTokens(_, _)
MatchTokens(text, i) ==
    IF i > Len(text) THEN <<>>
    ELSE IF IsHangul(text[i]) THEN <<SubSeq(text, i, i)>> \o MatchTokens(text, i + 1)
    ELSE IF IsSpace(text[i]) THEN MatchTokens(text, i + 1)
    ELSE LET n == RunLen(text, i)
         IN  <<SubSeq(text, i, i + n - 1)>> \o MatchTokens(text, i + n)

\* refineTextForPython: the tokens of the line joined by single spaces
refineTextForPython(text) ==
    LET tokens == MatchTokens(text, 1)
    IN  IF tokens = <<>> THEN <<>> ELSE JoinStr(tokens, <<32>>)

\* the lines joined as they are stored, without the tokenizer
FullLyricsTextUnrefined(rows) ==
    JoinStr([i \in 1..Len(rows) |-> rows[i]], <<32>> \o LINE_SEPARATOR \o <<32>>)

\* the text handed to the aligner by generate: refined lines joined by
\* " ||LINE_BREAK|| "
FullLyricsTextRefined(rows) ==
    JoinStr([i \in 1..Len(rows) |-> refineTextForPython(rows[i])],
            <<32>> \o LINE_SEPARATOR \o <<32>>)

\* the text handed to the aligner by generateFallback: raw lines joined
FullLyricsTextRaw(rows) ==
    JoinStr([i \in 1..Len(rows) |-> rows[i]], <<32>> \o LINE_SEPARATOR \o <<32>>)

\* a split that cuts after every Hangul code unit instead, leaving a leading
\* non-Korean run attached to the block that follows it
RECURSIVE SplitAfterHangul(_, _, _)
SplitAfterHangul(text, i, cur) ==
    IF i > Len(text) THEN (IF cur = <<>> THEN <<>> ELSE <<cur>>)
    ELSE IF IsHangul(text[i])
         THEN <<Append(cur, text[i])>> \o SplitAfterHangul(text, i + 1, <<>>)
         ELSE SplitAfterHangul(text, i + 1, Append(cur, text[i]))

\* markName.split(/(?=[가-힣])/).filter(Boolean): cut before every Hangul
\* code unit except at position 1; cur is the piece being collected
RECURSIVE SplitBeforeHangul(_, _, _)
SplitBeforeHangul(text, i, cur) ==
    IF i > Len(text) THEN (IF cur = <<>> THEN <<>> ELSE <<cur>>)
    ELSE IF IsHangul(text[i]) /\ cur # <<>>
         THEN <<cur>> \o SplitBeforeHangul(text, i + 1, <<text[i]>>)
         ELSE SplitBeforeHangul(text, i + 1, Append(cur, text[i]))

\* markName.split(""): one piece per code unit
SyllablesPerCodeUnit(markName) == [i \in 1..Len(markName) |-> <<markName[i]>>]

\* a split that cuts once only, before the second syllable unit
SyllablesFirstCut(markName) ==
    LET cuts == {i \in 2..Len(markName) : IsHangul(markName[i])}
    IN  IF cuts = {} THEN (IF markName = <<>> THEN <<>> ELSE <<markName>>)
        ELSE LET c == CHOOSE i \in cuts : \A j \in cuts : i <= j
             IN  <<SubSeq(markName, 1, c - 1), SubSeq(markName, c, Len(markName))>>

Syllables(markName) == SplitBeforeHangul(markName, 1, <<>>)

\* a join without the space: t.map(t => t.markName).join("")
RefinedTextOfUnspaced(timings) ==
    JoinStr([i \in 1..Len(timings) |-> timings[i].markName], <<>>)

\* t.map(t => t.markName).join(" ")
RefinedTextOf(timings) ==
    JoinStr([i \in 1..Len(timings) |-> timings[i].markName], <<32>>)

\* true iff needle occurs in text as a contiguous substring
Contains(text, needle) ==
    \E i \in 1..(Len(text) - Len(needle) + 1) :
        SubSeq(text, i, i + Len(needle) - 1) = needle

\* ---------------------------------------------------------------- segmenter
\* pyResult.word === this.LINE_SEPARATOR
IsSeparator(word) == word = LINE_SEPARATOR

\* lyrics[lineIndex] is defined (lineIndex counts from 0, as in the source)
HasLine(rows, lineIndex) == lineIndex < Len(rows)

\* a push that always names the first line
LineResultFirstLine(rows, lineIndex, timings) ==
    [originalText |-> rows[1],
     refinedText  |-> RefinedTextOf(timings),
     timings      |-> timings]

\* the object pushed onto results for the line under the cursor
LineResult(rows, lineIndex, timings) ==
    [originalText |-> rows[lineIndex + 1],
     refinedText  |-> RefinedTextOf(timings),
     timings      |-> timings]

\* a cursor that is never advanced
NextLineIndexStuck(lineIndex) == lineIndex

\* lineIndex++ after a separator
NextLineIndex(lineIndex) == lineIndex + 1

\* an iteration that buffers every token that is not the separator, the ones
\* with empty text included
ScanStepKeepEmpty(st, rows, pyResult) ==
    IF IsSeparator(pyResult.word)
    THEN [results |-> IF HasLine(rows, st.lineIndex)
                      THEN Append(st.results,
                                  LineResult(rows, st.lineIndex, st.currentLineTimings))
                      ELSE st.results,
          currentLineTimings |-> <<>>,
          lineIndex |-> NextLineIndex(st.lineIndex)]
    ELSE [st EXCEPT !.currentLineTimings =
              Append(@, [timeSeconds |-> pyResult.start, markName |-> pyResult.word])]

\* an iteration that pushes a line at a separator only when it has timings
ScanStepSkipEmpty(st, rows, pyResult) ==
    IF IsSeparator(pyResult.word)
    THEN [results |-> IF HasLine(rows, st.lineIndex) /\ st.currentLineTimings # <<>>
                      THEN Append(st.results,
                                  LineResult(rows, st.lineIndex, st.currentLineTimings))
                      ELSE st.results,
          currentLineTimings |-> <<>>,
          lineIndex |-> NextLineIndex(st.lineIndex)]
    ELSE IF pyResult.word # <<>>
    THEN [st EXCEPT !.currentLineTimings =
              Append(@, [timeSeconds |-> pyResult.start, markName |-> pyResult.word])]
    ELSE st

\* one iteration of the for loop over allPythonResults
ScanStep(st, rows, pyResult) ==
    IF IsSeparator(pyResult.word)
    THEN [results |-> IF HasLine(rows, st.lineIndex)
                      THEN Append(st.results,
                                  LineResult(rows, st.lineIndex, st.currentLineTimings))
                      ELSE st.results,
          currentLineTimings |-> <<>>,
          lineIndex |-> NextLineIndex(st.lineIndex)]
    ELSE IF pyResult.word # <<>>
    THEN [st EXCEPT !.currentLineTimings =
              Append(@, [timeSeconds |-> pyResult.start, markName |-> pyResult.word])]
    ELSE st

\* a final push that needs more than one buffered timing
FlushNeededTwo(st, rows) == Len(st.currentLineTimings) > 1 /\ HasLine(rows, st.lineIndex)

\* the buffer left after the loop is pushed only when it is non-empty
FlushNeeded(st, rows) == Len(st.currentLineTimings) > 0 /\ HasLine(rows, st.lineIndex)

\* a push after the loop that emits what is left for a line that does not
\* exist, under an empty text
FinalFlushLenient(st, rows) ==
    IF Len(st.currentLineTimings) > 0
    THEN Append(st.results,
                [originalText |-> IF HasLine(rows, st.lineIndex)
                                  THEN rows[st.lineIndex + 1] ELSE <<>>,
                 refinedText  |-> RefinedTextOf(st.currentLineTimings),
                 timings      |-> st.currentLineTimings])
    ELSE st.results

\* the push after the loop
FinalFlush(st, rows) ==
    IF FlushNeeded(st, rows)
    THEN Append(st.results, LineResult(rows, st.lineIndex, st.currentLineTimings))
    ELSE st.results

\* the state of the scan before the first iteration
ScanStart == [results |-> <<>>, currentLineTimings |-> <<>>, lineIndex |-> 0]

\* the for loop from element i on, then the final push: the list returned for
\* a whole array
RECURSIVE ScanFrom(_, _, _, _)
ScanFrom(st, rows, stream, i) ==
    IF i > Len(stream) THEN FinalFlush(st, rows)
    ELSE ScanFrom(ScanStep(st, rows, stream[i]), rows, stream, i + 1)

Segment(stream, rows) == ScanFrom(ScanStart, rows, stream, 1)

\* a catch block that returns no entries at all
EmptyTimingsNone(rows) == <<>>

\* the value returned from the catch block when the alignment is rejected
EmptyTimings(rows) ==
    [i \in 1..Len(rows) |->
        [originalText |-> rows[i], refinedText |-> <<>>, timings |-> <<>>]]

\* -------------------------------------------------------------- interpolator
\* an end that ignores the neighbours and always takes the default span
EndTimeDefault(all, lineIdx, wordIdx) ==
    all[lineIdx].timings[wordIdx].timeSeconds + OneSecond

\* an end that never looks at the following line
EndTimeSameLine(all, lineIdx, wordIdx) ==
    IF wordIdx < Len(all[lineIdx].timings)
    THEN all[lineIdx].timings[wordIdx + 1].timeSeconds
    ELSE all[lineIdx].timings[wordIdx].timeSeconds + OneSecond

\* the end of the word at wordIdx of line lineIdx (both count from 1 here)
EndTime(all, lineIdx, wordIdx) ==
    LET originTimings == all[lineIdx].timings
        startTime == originTimings[wordIdx].timeSeconds
    IN  IF wordIdx < Len(originTimings)
        THEN originTimings[wordIdx + 1].timeSeconds
        ELSE IF lineIdx < Len(all)
        THEN IF Len(all[lineIdx + 1].timings) > 0
             THEN all[lineIdx + 1].timings[1].timeSeconds
             ELSE startTime + OneSecond
        ELSE startTime + OneSecond

\* a duration that is not clamped at 0
DurationSigned(startTime, endTime) == endTime - startTime

\* Math.max(0, endTime - startTime)
Duration(startTime, endTime) ==
    IF endTime - startTime > 0 THEN endTime - startTime ELSE 0

\* a syllable time that forgets to divide the duration by the syllable count
SyllableTimeUndivided(startTime, duration, syllableCount, sIdx) ==
    startTime + duration * sIdx

\* a syllable time whose index counts from 1
SyllableTimeFromOne(startTime, duration, syllableCount, sIdx) ==
    startTime + (duration \div syllableCount) * (sIdx + 1)

\* startTime + syllableDuration * sIdx, sIdx counting from 0
SyllableTime(startTime, duration, syllableCount, sIdx) ==
    startTime + (duration \div syllableCount) * sIdx

\* the callback of flatMap: the timings that replace one word
ExpandTiming(all, lineIdx, wordIdx) ==
    LET timing == all[lineIdx].timings[wordIdx]
        syllables == Syllables(timing.markName)
        syllableCount == Len(syllables)
    IN  IF syllableCount <= 1 THEN <<timing>>
        ELSE LET duration == Duration(timing.timeSeconds, EndTime(all, lineIdx, wordIdx))
             IN  [s \in 1..syllableCount |->
                     [timeSeconds |-> SyllableTime(timing.timeSeconds, duration,
                                                   syllableCount, s - 1),
                      markName |-> syllables[s]]]

\* originTimings.flatMap(...) from word wordIdx on
RECURSIVE FlatMapFrom(_, _, _)
FlatMapFrom(all, lineIdx, wordIdx) ==
    IF wordIdx > Len(all[lineIdx].timings) THEN <<>>
    ELSE ExpandTiming(all, lineIdx, wordIdx) \o FlatMapFrom(all, lineIdx, wordIdx + 1)

\* resultWithTimings.map(...) of generateFallback
Interpolate(all) ==
    [lineIdx \in 1..Len(all) |->
        LET refinedTimings == FlatMapFrom(all, lineIdx, 1)
        IN  [originalText |-> all[lineIdx].originalText,
             refinedText  |-> RefinedTextOf(refinedTimings),
             timings      |-> refinedTimings]]

\* ------------------------------------------------------- alignment invoker
\* stdout is kept as the sequence of pieces the process wrote.  A piece is
\*   "log"          text with neither "[" nor "{"
\*   "logBracket"   text that is not JSON and holds a "["
\*   "array"        the text of one complete JSON array
\*   "errorObject"  the text of {"error": <non-empty message>}
\*   "errorObjectBracket"  the same, the message holding a "["
\*   "object"       the text of a JSON object without a truthy error member
\*   "truncated"    the cut-off beginning of a JSON array
ChunkKinds ==
    {"log", "logBracket", "array", "errorObject", "errorObjectBracket",
     "object", "truncated"}

HasBracket(kind) == kind \in {"logBracket", "array", "errorObjectBracket", "truncated"}
HasBrace(kind) == kind \in {"errorObject", "errorObjectBracket", "object", "truncated"}

\* jsonData.indexOf("["): the first piece that holds a "[", 0 for -1
IndexOfBracket(jsonData) ==
    IF \E i \in 1..Len(jsonData) : HasBracket(jsonData[i])
    THEN CHOOSE i \in 1..Len(jsonData) :
            HasBracket(jsonData[i]) /\ \A j \in 1..(i - 1) : ~HasBracket(jsonData[j])
    ELSE 0

\* jsonData.indexOf("{")
IndexOfBrace(jsonData) ==
    IF \E i \in 1..Len(jsonData) : HasBrace(jsonData[i])
    THEN CHOOSE i \in 1..Len(jsonData) :
            HasBrace(jsonData[i]) /\ \A j \in 1..(i - 1) : ~HasBrace(jsonData[j])
    ELSE 0

\* JSON.parse(jsonData.substring(index)) returns a value: the text from the
\* found character on is one complete JSON value and nothing follows it
ParsesFrom(jsonData, i, kinds) == i = Len(jsonData) /\ jsonData[i] \in kinds

Pending == [state |-> "pending", reason |-> "none", value |-> <<>>]
Rejected(reason) == [state |-> "rejected", reason |-> reason, value |-> <<>>]
Resolved(value) == [state |-> "resolved", reason |-> "none", value |-> value]

\* what the "close" handler passes to resolve or reject; result is the value
\* JSON.parse gives for the array text
CloseOutcome(code, jsonData, result) ==
    IF code # 0 THEN Rejected("exitCode")
    ELSE LET jsonStartIndex == IndexOfBracket(jsonData)
             errorStartIndex == IndexOfBrace(jsonData)
         IN  IF jsonStartIndex = 0
             THEN IF errorStartIndex # 0
                     /\ ParsesFrom(jsonData, errorStartIndex, {"errorObject"})
                  THEN Rejected("scriptError")
                  ELSE Rejected("parse")
             ELSE IF ParsesFrom(jsonData, jsonStartIndex, {"array"})
                  THEN Resolved(result)
                  ELSE Rejected("parse")

\* a settlement that the last caller wins
SettleLast(current, new) == new

\* a promise keeps its first settlement: later resolve/reject calls are no-ops
Settle(current, new) == IF current.state = "pending" THEN new ELSE current

\* JSON.stringify of the result list, kept structured
JSONStringify(value) == [json |-> value]

\* ------------------------------------------------------------------ inputs
\* lyric lines (original_text of lyric_line rows)
LineGa == <<44032>>
LineNa == <<45208>>
LineEmpty == <<>>
LineBlank == <<32, 32>>
LineMixed == <<40, 48520, 41, 32, 101, 104>>
LineSentinel == LINE_SEPARATOR

\* the rows fetchLyrics may return
LyricInputs ==
    { <<>>, <<LineGa>>, <<LineBlank>>, <<LineSentinel>>,
      <<LineGa, LineNa>>, <<LineGa, LineGa>>, <<LineGa, LineEmpty>>,
      <<LineEmpty, LineGa>>, <<LineGa, LineEmpty, LineGa>>,
      <<LineGa, LineNa, LineMixed>> }

\* the words the aligner may report: the separator, an empty word, a single
\* syllable, a two-syllable word, and a syllable glued to the separator
Words ==
    { LINE_SEPARATOR, <<>>, <<44032>>, <<47560, 49884>>,
      LINE_SEPARATOR \o <<44032>> }

\* the start times the aligner may report, in ticks
Starts == {0, OneSecond}

\* the elements of the aligner's JSON array (PythonTimingResult)
Tokens == [word : Words, start : Starts]

\* the arrays JSON.parse may return
Streams == UNION { [1..n -> Tokens] : n \in 0..MaxStream }

\* exit codes of the alignment process (a process ended by a signal closes
\* with null, which takes the same branch as 1)
ExitCodes == {0, 1}

\* ------------------------------------------------------------------- state
VARIABLES
    op,                 \* "generate" or "generateFallback"
    requestValid,       \* the request body passes the schema
    songFound,          \* fetchSongById returns exactly one row
    lyrics,             \* the rows of fetchLyrics
    pc,                 \* position of the run
    connection,         \* "none", "held" or "released"
    fullLyricsText,     \* the text handed to the aligner
    tempFile,           \* "none", "present" or "deleted"
    jsonData,           \* stdout of the alignment process so far
    closeCode,          \* <<code>> once "close" has been delivered, else <<>>
    procErrored,        \* the "error" event has been delivered
    outcome,            \* the promise returned by executeAlignment
    allPythonResults,   \* the resolved array
    scanPos,            \* number of elements the for loop has consumed
    results,
    currentLineTimings,
    lineIndex,
    mismatchWarned,     \* the [Timing Mismatch] warning was logged
    resultWithTimings,  \* what getSyllableTimings returned (and its refinement)
    persisted,          \* <<song.timings>> once updateSongTimings wrote it, else <<>>
    httpStatus,         \* status of the response, 0 while none is sent
    now,                \* Date.now(), in milliseconds
    runs,               \* the concurrent calls of getSyllableTimings
    tempDir,            \* the paths that exist in TEMP_DIR
    ttsJob,             \* the batch of TTSProcessor.runJob
    pipeline,           \* one call of PipelineService.run
    elevenJob           \* one call of ElevenLabsTTSProcessor.retryOne, with lyric_line

inputVars == <<op, requestValid, songFound, lyrics>>
procVars == <<jsonData, closeCode, procErrored, outcome>>
scanVars == <<allPythonResults, scanPos, results, currentLineTimings, lineIndex,
              mismatchWarned>>
vars == <<op, requestValid, songFound, lyrics, pc, connection, fullLyricsText,
          tempFile, jsonData, closeCode, procErrored, outcome, allPythonResults,
          scanPos, results, currentLineTimings, lineIndex, mismatchWarned,
          resultWithTimings, persisted, httpStatus, now, runs, tempDir, ttsJob,
          pipeline, elevenJob>>

\* the state of the other services while one reconstruction run is followed
laterVars == <<pipeline, elevenJob>>
otherVars == <<now, runs, tempDir, ttsJob, laterVars>>
NoJob == [pc |-> "idle", table |-> <<>>, rows |-> <<>>, attempted |-> 0,
          status |-> <<>>, connection |-> "none"]
NoPipeline == [pc |-> "idle"]
NoElevenJob == [pc |-> "idle", connection |-> "none"]
LaterIdle ==
    /\ pipeline = NoPipeline
    /\ elevenJob = NoElevenJob
OthersIdle ==
    /\ now = 0
    /\ runs = <<>>
    /\ tempDir = {}
    /\ ttsJob = NoJob
    /\ LaterIdle

Init ==
    /\ op \in {"generate", "generateFallback"}
    /\ requestValid \in BOOLEAN
    /\ (op = "generateFallback" => requestValid)
    /\ songFound \in BOOLEAN
    /\ lyrics \in LyricInputs
    /\ pc = "start"
    /\ connection = "none"
    /\ fullLyricsText = <<>>
    /\ tempFile = "none"
    /\ jsonData = <<>>
    /\ closeCode = <<>>
    /\ procErrored = FALSE
    /\ outcome = Pending
    /\ allPythonResults = <<>>
    /\ scanPos = 0
    /\ results = <<>>
    /\ currentLineTimings = <<>>
    /\ lineIndex = 0
    /\ mismatchWarned = FALSE
    /\ resultWithTimings = <<>>
    /\ persisted = <<>>
    /\ httpStatus = 0
    /\ OthersIdle

\* ----------------------------------------------------------------- actions
\* POST /song-timing with a body the schema refuses: 400, generate not called
RejectRequest ==
    /\ pc = "start"
    /\ ~requestValid
    /\ httpStatus' = StatusBadRequest
    /\ pc' = "responded"
    /\ UNCHANGED <<otherVars, inputVars, procVars, scanVars, connection, fullLyricsText,
                   tempFile, resultWithTimings, persisted>>

\* generate / generateFallback up to the call of getSyllableTimings: the
\* connection, the song row, the lyric rows and the flattened text.  A missing
\* song throws into the catch block, no lyrics returns; both run finally.
Begin ==
    /\ pc = "start"
    /\ requestValid
    /\ IF ~songFound \/ lyrics = <<>>
       THEN /\ connection' = "released"
            /\ pc' = "returned"
            /\ UNCHANGED fullLyricsText
       ELSE /\ connection' = "held"
            /\ fullLyricsText' = IF op = "generate"
                                 THEN FullLyricsTextRefined(lyrics)
                                 ELSE FullLyricsTextRaw(lyrics)
            /\ pc' = "download"
    /\ UNCHANGED <<otherVars, inputVars, procVars, scanVars, tempFile, resultWithTimings,
                   persisted, httpStatus>>

\* downloadAudio resolves, executeAlignment spawns the process
DownloadOk ==
    /\ pc = "download"
    /\ tempFile' = "present"
    /\ pc' = "aligning"
    /\ UNCHANGED <<otherVars, inputVars, procVars, scanVars, connection, fullLyricsText,
                   resultWithTimings, persisted, httpStatus>>

\* a rejection of downloadAudio that ends the call past its finally
DownloadFailNoRelease ==
    /\ pc = "download"
    /\ \E kind \in {"requestError", "status"} :
          tempFile' = IF kind = "requestError" THEN "deleted" ELSE "present"
    /\ pc' = "returned"
    /\ UNCHANGED <<otherVars, inputVars, procVars, scanVars, fullLyricsText,
                   resultWithTimings, persisted, httpStatus, connection>>

\* downloadAudio rejects (request error: the partial file is unlinked; status
\* other than 200: it is not); the rejection leaves getSyllableTimings and is
\* caught by the caller, whose finally releases the connection
DownloadFail ==
    /\ pc = "download"
    /\ \E kind \in {"requestError", "status"} :
          tempFile' = IF kind = "requestError" THEN "deleted" ELSE "present"
    /\ connection' = "released"
    /\ pc' = "returned"
    /\ UNCHANGED <<otherVars, inputVars, procVars, scanVars, fullLyricsText,
                   resultWithTimings, persisted, httpStatus>>

\* stdout "data": jsonData += data.toString()
StdoutData ==
    /\ pc = "aligning"
    /\ closeCode = <<>>
    /\ ~procErrored
    /\ Len(jsonData) < MaxChunks
    /\ \E kind \in ChunkKinds : jsonData' = Append(jsonData, kind)
    /\ UNCHANGED <<otherVars, inputVars, scanVars, closeCode, procErrored, outcome, pc,
                   connection, fullLyricsText, tempFile, resultWithTimings,
                   persisted, httpStatus>>

\* "close": the exit code and stdout decide resolve or reject
ProcClose ==
    /\ pc = "aligning"
    /\ closeCode = <<>>
    /\ \E code \in ExitCodes :
       \E result \in (IF CloseOutcome(code, jsonData, <<>>).state = "resolved"
                      THEN Streams ELSE {<<>>}) :
          /\ outcome' = Settle(outcome, CloseOutcome(code, jsonData, result))
          /\ closeCode' = <<code>>
    /\ UNCHANGED <<otherVars, inputVars, scanVars, jsonData, procErrored, pc, connection,
                   fullLyricsText, tempFile, resultWithTimings, persisted,
                   httpStatus>>

\* "error": the process could not be spawned, so it has written nothing
ProcError ==
    /\ pc = "aligning"
    /\ ~procErrored
    /\ jsonData = <<>>
    /\ outcome' = Settle(outcome, Rejected("spawn"))
    /\ procErrored' = TRUE
    /\ UNCHANGED <<otherVars, inputVars, scanVars, jsonData, closeCode, pc, connection,
                   fullLyricsText, tempFile, resultWithTimings, persisted,
                   httpStatus>>

\* where the caller of getSyllableTimings continues with its result
AfterTimings == IF op = "generateFallback" THEN "interpolate" ELSE "persist"

\* getSyllableTimings resumes after the await: the catch block returns the
\* empty result list, otherwise the scan starts; finally unlinks the temp file
\* (a failing unlink is only logged; the file system is taken to obey).  The
\* stdout buffer is a local of the settled promise's executor and is dropped
\* with it.
AlignmentSettled ==
    /\ pc = "aligning"
    /\ outcome.state # "pending"
    /\ tempFile' = "deleted"
    /\ IF outcome.state = "rejected"
       THEN /\ resultWithTimings' = EmptyTimings(lyrics)
            /\ pc' = AfterTimings
            /\ UNCHANGED scanVars
       ELSE /\ allPythonResults' = outcome.value
            /\ scanPos' = 0
            /\ results' = ScanStart.results
            /\ currentLineTimings' = ScanStart.currentLineTimings
            /\ lineIndex' = ScanStart.lineIndex
            /\ pc' = "scan"
            /\ UNCHANGED <<mismatchWarned, resultWithTimings>>
    /\ jsonData' = <<>>
    /\ UNCHANGED <<otherVars, inputVars, closeCode, procErrored, outcome, connection,
                   fullLyricsText, persisted, httpStatus>>

\* the scan state as a record
ScanState ==
    [results |-> results, currentLineTimings |-> currentLineTimings,
     lineIndex |-> lineIndex]

\* one iteration of the for loop
ScanToken ==
    /\ pc = "scan"
    /\ scanPos < Len(allPythonResults)
    /\ LET next == ScanStep(ScanState, lyrics, allPythonResults[scanPos + 1])
       IN  /\ results' = next.results
           /\ currentLineTimings' = next.currentLineTimings
           /\ lineIndex' = next.lineIndex
    /\ scanPos' = scanPos + 1
    /\ UNCHANGED <<otherVars, inputVars, procVars, allPythonResults, mismatchWarned, pc,
                   connection, fullLyricsText, tempFile, resultWithTimings,
                   persisted, httpStatus>>

\* an end of the scan that throws on a count mismatch instead of warning: the
\* caller's catch and finally run, nothing is stored
ScanFinishStrict ==
    /\ pc = "scan"
    /\ scanPos = Len(allPythonResults)
    /\ results' = FinalFlush(ScanState, lyrics)
    /\ mismatchWarned' = (Len(results') # Len(lyrics))
    /\ IF mismatchWarned'
       THEN /\ pc' = "returned"
            /\ connection' = "released"
            /\ UNCHANGED resultWithTimings
       ELSE /\ pc' = AfterTimings
            /\ resultWithTimings' = results'
            /\ UNCHANGED connection
    /\ UNCHANGED <<otherVars, inputVars, procVars, allPythonResults, scanPos,
                   currentLineTimings, lineIndex, fullLyricsText, tempFile,
                   persisted, httpStatus>>

\* after the loop: the final push, the mismatch warning, the return
ScanFinish ==
    /\ pc = "scan"
    /\ scanPos = Len(allPythonResults)
    /\ results' = FinalFlush(ScanState, lyrics)
    /\ mismatchWarned' = (Len(results') # Len(lyrics))
    /\ resultWithTimings' = results'
    /\ pc' = AfterTimings
    /\ UNCHANGED <<otherVars, inputVars, procVars, allPythonResults, scanPos,
                   currentLineTimings, lineIndex, connection, fullLyricsText,
                   tempFile, persisted, httpStatus>>

\* generateFallback spreads every word over its syllables
InterpolateResults ==
    /\ pc = "interpolate"
    /\ resultWithTimings' = Interpolate(resultWithTimings)
    /\ pc' = "persist"
    /\ UNCHANGED <<otherVars, inputVars, procVars, scanVars, connection, fullLyricsText,
                   tempFile, persisted, httpStatus>>

\* updateSongTimings stores the JSON text, or throws into the catch block;
\* finally releases the connection
Persist ==
    /\ pc = "persist"
    /\ \E stored \in BOOLEAN :
          persisted' = IF stored THEN <<JSONStringify(resultWithTimings)>> ELSE persisted
    /\ connection' = "released"
    /\ pc' = "returned"
    /\ UNCHANGED <<otherVars, inputVars, procVars, scanVars, fullLyricsText, tempFile,
                   resultWithTimings, httpStatus>>

\* POST /song-timing after await generate(...): 201
Respond ==
    /\ pc = "returned"
    /\ op = "generate"
    /\ httpStatus' = StatusCreated
    /\ pc' = "responded"
    /\ UNCHANGED <<otherVars, inputVars, procVars, scanVars, connection, fullLyricsText,
                   tempFile, resultWithTimings, persisted>>

Next ==
    \/ RejectRequest
    \/ Begin
    \/ DownloadOk
    \/ DownloadFail
    \/ StdoutData
    \/ ProcClose
    \/ ProcError
    \/ AlignmentSettled
    \/ ScanToken
    \/ ScanFinish
    \/ InterpolateResults
    \/ Persist
    \/ Respond

Spec == Init /\ [][Next]_vars

\* ------------------------------------------- the interpolation step alone
\* the words of the segmented lines handed to the interpolator: one syllable,
\* three syllables, Latin text before a syllable, Latin text after a
\* syllable, and Latin text only
InterpWords ==
    { <<44032>>, <<47560, 49884, 44256>>, <<97, 44032>>, <<44032, 97>>, <<97, 98>> }

\* their start times, in ticks
InterpStarts == {OneSecond, 2 * OneSecond}

InterpTimings == [timeSeconds : InterpStarts, markName : InterpWords]

\* at most MaxWords words over all the lines
WordLists == UNION { [1..n -> InterpTimings] : n \in 0..MaxWords }

\* a segmented line as getSyllableTimings returns it
InterpLine(timings) ==
    [originalText |-> RefinedTextOf(timings),
     refinedText  |-> RefinedTextOf(timings),
     timings      |-> timings]

\* the ends of all lines but the last, for up to MaxLines lines over n words
CutPoints(n) ==
    UNION { { c \in [1..(m - 1) -> 0..n] : \A i \in 1..(m - 2) : c[i] <= c[i + 1] }
            : m \in 1..MaxLines }

\* the list of words cut into lines
CutLines(flat, cuts) ==
    LET m == Len(cuts) + 1
        lo(i) == IF i = 1 THEN 0 ELSE cuts[i - 1]
        hi(i) == IF i = m THEN Len(flat) ELSE cuts[i]
    IN  [i \in 1..m |-> InterpLine(SubSeq(flat, lo(i) + 1, hi(i)))]

InterpInputs ==
    UNION { { CutLines(flat, c) : c \in CutPoints(Len(flat)) } : flat \in WordLists }

\* generateFallback at the point where getSyllableTimings has returned
InitInterp ==
    /\ op = "generateFallback"
    /\ requestValid = TRUE
    /\ songFound = TRUE
    /\ resultWithTimings \in InterpInputs
    /\ results = resultWithTimings
    /\ lyrics = [i \in 1..Len(resultWithTimings) |-> resultWithTimings[i].originalText]
    /\ pc = "interpolate"
    /\ connection = "held"
    /\ fullLyricsText = FullLyricsTextRaw(lyrics)
    /\ tempFile = "deleted"
    /\ jsonData = <<>>
    /\ closeCode = <<0>>
    /\ procErrored = FALSE
    /\ outcome = Resolved(<<>>)
    /\ allPythonResults = <<>>
    /\ scanPos = 0
    /\ currentLineTimings = <<>>
    /\ lineIndex = Len(lyrics)
    /\ mismatchWarned = FALSE
    /\ persisted = <<>>
    /\ httpStatus = 0
    /\ OthersIdle

NextInterp ==
    \/ InterpolateResults
    \/ Persist

SpecInterp == InitInterp /\ [][NextInterp]_vars

\* ------------------------------------------------------------------ claims
\* the loop and the final push of getSyllableTimings have run
ScanDone ==
    outcome.state = "resolved" /\ pc \in {"interpolate", "persist", "returned", "responded"}

\* number of elements of a stream whose word is the separator literal
SeparatorCount(stream) ==
    Cardinality({i \in 1..Len(stream) : stream[i].word = LINE_SEPARATOR})

\* C1: segmentation count.  When the aligner's array holds exactly n-1
\* separators for n lines and the buffer of the last line is flushed after the
\* loop, the scan returns exactly n results, result i carrying line i.
C1_SegmentationCount ==
    (/\ ScanDone
     /\ SeparatorCount(allPythonResults) = Len(lyrics) - 1
     /\ Len(currentLineTimings) > 0)
    => /\ Len(results) = Len(lyrics)
       /\ \A i \in 1..Len(lyrics) : results[i].originalText = lyrics[i]

\* three lines, two separators and a flushed last buffer
C1_Witness ==
    /\ ScanDone
    /\ Len(lyrics) = 3
    /\ SeparatorCount(allPythonResults) = 2
    /\ Len(currentLineTimings) > 0
    /\ Len(results) = 3

\* C2: for every aligner output the result list never grows beyond the number
\* of lyric lines, and every push is for the line whose index equals the number
\* of results pushed before it, so no line index is pushed twice.
C2_NeverMoreThanLines ==
    /\ [](Len(results) <= Len(lyrics) /\ Len(resultWithTimings) <= Len(lyrics))
    /\ [][Len(results') > Len(results)
            => /\ Len(results') = Len(results) + 1
               /\ lineIndex = Len(results)
               /\ lineIndex < Len(lyrics)]_vars

\* more separators than lines: a separator arrives with the cursor past the end
C2_Witness ==
    /\ ScanDone
    /\ Len(lyrics) = 1
    /\ SeparatorCount(allPythonResults) = 3
    /\ Len(results) = 1

\* C3: the result list is aligned with a prefix of the lines: result i carries
\* the text of line i, for every aligner output.
C3_PositionAligned ==
    /\ Len(results) <= Len(lyrics)
    /\ \A i \in 1..Len(results) : results[i].originalText = lyrics[i]
    /\ Len(resultWithTimings) <= Len(lyrics)
    /\ \A i \in 1..Len(resultWithTimings) :
          resultWithTimings[i].originalText = lyrics[i]

\* a degraded output: two results for three lines of different text
C3_Witness ==
    /\ ScanDone
    /\ Len(lyrics) = 3
    /\ lyrics[1] # lyrics[2]
    /\ Len(resultWithTimings) = 2
    /\ mismatchWarned

\* the whitespace-delimited tokens of text from position i on; cur is the token
\* being collected
RECURSIVE SplitWhitespace(_, _, _)
SplitWhitespace(text, i, cur) ==
    IF i > Len(text) THEN (IF cur = <<>> THEN <<>> ELSE <<cur>>)
    ELSE IF IsSpace(text[i])
         THEN (IF cur = <<>> THEN <<>> ELSE <<cur>>) \o SplitWhitespace(text, i + 1, <<>>)
         ELSE SplitWhitespace(text, i + 1, Append(cur, text[i]))

\* the markNames of a result line, in order
MarkNames(line) == [k \in 1..Len(line.timings) |-> line.timings[k].markName]

\* the words of a stream, in order
WordsOf(stream) == [k \in 1..Len(stream) |-> stream[k].word]

\* C4: no markName of any result line, as segmented or as interpolated, equals
\* or contains the separator literal, whatever the aligner returned.
C4_NoSentinelInMarkNames ==
    /\ \A i \in 1..Len(results) : \A k \in 1..Len(results[i].timings) :
          ~Contains(results[i].timings[k].markName, LINE_SEPARATOR)
    /\ \A i \in 1..Len(resultWithTimings) :
          \A k \in 1..Len(resultWithTimings[i].timings) :
             ~Contains(resultWithTimings[i].timings[k].markName, LINE_SEPARATOR)

\* C5: the flattened text generate builds for n lines holds exactly n-1
\* whitespace-delimited tokens equal to the separator literal, and no token
\* extracted from a lyric line equals it.
C5_SentinelNeverInLyrics ==
    (op = "generate" /\ pc = "download")
    => /\ Cardinality({k \in 1..Len(SplitWhitespace(fullLyricsText, 1, <<>>)) :
                         SplitWhitespace(fullLyricsText, 1, <<>>)[k] = LINE_SEPARATOR})
             = Len(lyrics) - 1
       /\ \A i \in 1..Len(lyrics) :
             \A k \in 1..Len(MatchTokens(lyrics[i], 1)) :
                MatchTokens(lyrics[i], 1)[k] # LINE_SEPARATOR

\* the aligner returned the submitted whitespace-delimited tokens, every one
\* once and in order
AlignerEchoed ==
    /\ ScanDone
    /\ WordsOf(allPythonResults) = SplitWhitespace(fullLyricsText, 1, <<>>)

\* C6: with an aligner that echoes the submitted tokens, every line that
\* yields no token has its own result, with empty timings, at its own position,
\* and every other result carries exactly the tokens of its own line.
C6_EmptyLineRepresented ==
    (op = "generate" /\ AlignerEchoed)
    => \A i \in 1..Len(lyrics) :
          MatchTokens(lyrics[i], 1) = <<>>
          => /\ i <= Len(results)
             /\ results[i].timings = <<>>
             /\ \A j \in 1..Len(results) :
                   MarkNames(results[j]) = MatchTokens(lyrics[j], 1)

\* the run is past getSyllableTimings
PastTimings == pc \in {"interpolate", "persist", "returned", "responded"}

\* C7: after a rejected alignment getSyllableTimings returns normally, with
\* exactly one entry per lyric line, in order, each with the line's text, no
\* timings and an empty refinedText.
C7_FailureGivesEmptyTimings ==
    (outcome.state = "rejected" /\ PastTimings)
    => /\ Len(resultWithTimings) = Len(lyrics)
       /\ \A i \in 1..Len(lyrics) :
             /\ resultWithTimings[i].originalText = lyrics[i]
             /\ resultWithTimings[i].timings = <<>>
             /\ resultWithTimings[i].refinedText = <<>>

\* an {error} payload on three lines
C7_Witness ==
    /\ outcome = Rejected("scriptError")
    /\ pc = "persist"
    /\ Len(lyrics) = 3
    /\ Len(resultWithTimings) = 3

\* stdout, from its first "[" on, is the text of one JSON array
IsArrayOutput(data) ==
    /\ Len(data) > 0
    /\ data[Len(data)] = "array"
    /\ \A j \in 1..(Len(data) - 1) : data[j] \in {"log", "errorObject", "object"}

\* C8: the promise of executeAlignment resolves exactly when the process
\* closed with code 0 and stdout held a JSON array; every other close and a
\* spawn error reject it; the scan only ever reads a resolved value; and a
\* settled promise is never changed by a later process event.
C8_OutcomeClassified ==
    /\ []((closeCode # <<>> /\ pc = "aligning")
            => /\ outcome.state # "pending"
               /\ (outcome.state = "resolved"
                     <=> (closeCode = <<0>> /\ IsArrayOutput(jsonData))))
    /\ []((/\ closeCode # <<>>
           /\ pc = "aligning"
           /\ Len(jsonData) > 0
           /\ jsonData[Len(jsonData)] \in {"errorObject", "errorObjectBracket"})
            => outcome.state = "rejected")
    /\ [](outcome.state = "resolved" => closeCode = <<0>>)
    /\ [](procErrored => outcome.state = "rejected")
    /\ [](pc = "scan" => (outcome.state = "resolved" /\ allPythonResults = outcome.value))
    /\ [](outcome.state # "resolved" => allPythonResults = <<>>)
    /\ [][outcome.state # "pending" => outcome' = outcome]_vars

\* a spawn error rejected the promise and the close event came afterwards
C8_Witness ==
    /\ outcome = Rejected("spawn")
    /\ procErrored
    /\ closeCode = <<0>>
    /\ pc = "aligning"

\* an {error} object closed with code 0 was classified as a script error
C8_WitnessScriptError ==
    /\ outcome = Rejected("scriptError")
    /\ closeCode = <<0>>
    /\ jsonData = <<"log", "errorObject">>

\* C9: what a run leaves behind after a rejected alignment (the stored timings
\* and the response of POST /song-timing) differs from what a run leaves
\* behind for any array the aligner can return.
C9_FailureDistinguishable ==
    (pc = "responded" /\ outcome.state = "rejected")
    => \A stream \in Streams :
          << <<JSONStringify(Segment(stream, lyrics))>>, StatusCreated >>
             # <<persisted, httpStatus>>

\* start times never decrease along the stream
NonDecreasingStarts(stream) ==
    \A i \in 1..Len(stream) : \A j \in i..Len(stream) : stream[i].start <= stream[j].start

\* timeSeconds never decreases along the timings of one line
TimeOrdered(timings) ==
    \A k \in 1..(Len(timings) - 1) : timings[k].timeSeconds <= timings[k + 1].timeSeconds

\* C10: when the aligner's start times never decrease, every result line is
\* time-ordered, as segmented and as interpolated, and no syllable time
\* synthesized for a word lies after the start of the next word of its line.
C10_TimeOrdered ==
    NonDecreasingStarts(allPythonResults)
    => /\ \A i \in 1..Len(results) : TimeOrdered(results[i].timings)
       /\ \A i \in 1..Len(resultWithTimings) : TimeOrdered(resultWithTimings[i].timings)
       /\ (ScanDone /\ op = "generateFallback" /\ pc # "interpolate")
          => \A i \in 1..Len(results) :
                \A w \in 1..(Len(results[i].timings) - 1) :
                   \A s \in 1..Len(ExpandTiming(results, i, w)) :
                      ExpandTiming(results, i, w)[s].timeSeconds
                         <= results[i].timings[w + 1].timeSeconds

\* a two-syllable word followed by a later word: the second syllable lies
\* strictly between the two starts
C10_Witness ==
    /\ ScanDone
    /\ op = "generateFallback"
    /\ pc = "persist"
    /\ NonDecreasingStarts(allPythonResults)
    /\ Len(results) = 1
    /\ Len(results[1].timings) = 2
    /\ Len(resultWithTimings[1].timings) = 3
    /\ resultWithTimings[1].timings[1].timeSeconds < resultWithTimings[1].timings[2].timeSeconds
    /\ resultWithTimings[1].timings[2].timeSeconds < resultWithTimings[1].timings[3].timeSeconds


\* ------------------------------------- a run whose process never exits
\* the alignment process delivers neither "close" nor "error"; everything
\* else is as in Next
NextHung ==
    \/ RejectRequest
    \/ Begin
    \/ DownloadOk
    \/ DownloadFail
    \/ StdoutData
    \/ Respond

\* the steps of the service itself: the event loop runs every continuation
\* that is ready, while the process is free to stay silent
ServiceStep ==
    \/ RejectRequest
    \/ Begin
    \/ DownloadOk
    \/ DownloadFail
    \/ Respond

SpecHung == Init /\ [][NextHung]_vars /\ WF_vars(ServiceStep)

\* ------------------------------------- two runs of getSyllableTimings
\* two calls of getSyllableTimings in flight in one process
RunIds == {1, 2}

\* the songs they may be for
SongIds == {1, 2}

\* `${Date.now()}_${songId}.mp3` under TEMP_DIR
TempFileName(ms, songId) == <<ms, songId>>

TempPaths == { TempFileName(ms, songId) : ms \in 0..MaxMillis, songId \in SongIds }

NoFile == [exists |-> FALSE, writers |-> {}]

\* a call before its first statement; alignerOk says whether the aligner
\* succeeds on this song's audio and text when it can read them whole
NewRun(songId, alignerOk) ==
    [songId |-> songId, alignerOk |-> alignerOk, pc |-> "start",
     localPath |-> <<>>, result |-> "none"]

InitConc ==
    /\ op = "generate"
    /\ requestValid = TRUE
    /\ songFound = TRUE
    /\ lyrics = <<LineGa>>
    /\ pc = "concurrent"
    /\ connection = "none"
    /\ fullLyricsText = <<>>
    /\ tempFile = "none"
    /\ jsonData = <<>>
    /\ closeCode = <<>>
    /\ procErrored = FALSE
    /\ outcome = Pending
    /\ allPythonResults = <<>>
    /\ scanPos = 0
    /\ results = <<>>
    /\ currentLineTimings = <<>>
    /\ lineIndex = 0
    /\ mismatchWarned = FALSE
    /\ resultWithTimings = <<>>
    /\ persisted = <<>>
    /\ httpStatus = 0
    /\ now = 0
    /\ runs \in [RunIds -> { NewRun(songId, ok) : songId \in SongIds, ok \in BOOLEAN }]
    /\ tempDir = [p \in TempPaths |-> NoFile]
    /\ ttsJob = NoJob
    /\ LaterIdle

runVars == <<op, requestValid, songFound, lyrics, pc, connection, fullLyricsText,
             tempFile, jsonData, closeCode, procErrored, outcome, allPythonResults,
             scanPos, results, currentLineTimings, lineIndex, mismatchWarned,
             resultWithTimings, persisted, httpStatus>>

\* the clock advances by a millisecond
ClockTick ==
    /\ now < MaxMillis
    /\ now' = now + 1
    /\ UNCHANGED <<runVars, runs, tempDir, ttsJob, laterVars>>

\* downloadAudio up to the request: the name is built from the clock and the
\* song id, createWriteStream creates the file or truncates the one there,
\* into which a call that is still downloading to that path keeps writing
DownloadAudioStart ==
    \E r \in RunIds :
        /\ runs[r].pc = "start"
        /\ LET localPath == TempFileName(now, runs[r].songId)
           IN  /\ runs' = [runs EXCEPT ![r].pc = "downloading", ![r].localPath = localPath]
               /\ tempDir' = [tempDir EXCEPT ![localPath] =
                                 [exists |-> TRUE,
                                  writers |-> {r} \cup {q \in @.writers :
                                                  runs[q].pc = "downloading"}]]
        /\ UNCHANGED <<runVars, now, ttsJob, laterVars>>

\* the response has been piped to the file: resolve(localPath)
DownloadAudioFinish ==
    \E r \in RunIds :
        /\ runs[r].pc = "downloading"
        /\ runs' = [runs EXCEPT ![r].pc = "aligning"]
        /\ UNCHANGED <<runVars, now, tempDir, ttsJob, laterVars>>

\* the request fails (the file at localPath is unlinked) or answers with a
\* status other than 200 (it is left); the rejection leaves getSyllableTimings
DownloadAudioReject ==
    \E r \in RunIds, kind \in {"requestError", "status"} :
        /\ runs[r].pc = "downloading"
        /\ runs' = [runs EXCEPT ![r].pc = "done", ![r].result = "thrown"]
        /\ tempDir' = IF kind = "requestError"
                      THEN [tempDir EXCEPT ![runs[r].localPath] = NoFile]
                      ELSE tempDir
        /\ UNCHANGED <<runVars, now, ttsJob, laterVars>>

\* the file at path is there and no other call is still writing into it
FileWhole(r, path) ==
    /\ tempDir[path].exists
    /\ \A q \in RunIds \ {r} :
          ~(runs[q].pc = "downloading" /\ runs[q].localPath = path)

\* executeAlignment: the aligner reads the file at localPath.  A file that is
\* missing makes it fail; one that another call is still writing may be read
\* whole or cut short
ExecuteAlignment ==
    \E r \in RunIds :
        /\ runs[r].pc = "aligning"
        /\ \E readWhole \in (IF FileWhole(r, runs[r].localPath) THEN {TRUE}
                             ELSE IF tempDir[runs[r].localPath].exists THEN BOOLEAN
                             ELSE {FALSE}) :
              runs' = [runs EXCEPT ![r].pc = "cleanup",
                                   ![r].result = IF readWhole /\ runs[r].alignerOk
                                                 THEN "timings" ELSE "empty"]
        /\ UNCHANGED <<runVars, now, tempDir, ttsJob, laterVars>>

\* finally: fs.promises.unlink(localAudioPath), a failure being logged only
UnlinkTempFile ==
    \E r \in RunIds :
        /\ runs[r].pc = "cleanup"
        /\ runs' = [runs EXCEPT ![r].pc = "done"]
        /\ tempDir' = [tempDir EXCEPT ![runs[r].localPath] = NoFile]
        /\ UNCHANGED <<runVars, now, ttsJob, laterVars>>

NextConc ==
    \/ ClockTick
    \/ DownloadAudioStart
    \/ DownloadAudioFinish
    \/ DownloadAudioReject
    \/ ExecuteAlignment
    \/ UnlinkTempFile

SpecConc == InitConc /\ [][NextConc]_vars

\* --------------------------------------------- TTSProcessor.runJob
\* the texts of the rows waiting for speech: one with a Korean syllable, one
\* without
TtsTexts == {LineGa, <<97>>}

\* a waiting row and what the services do when asked about it:
\*   sameLength     standardizePronunciation keeps the number of characters
\*   synthesis      synthesizeSpeech returns audio, returns none, or throws
\*   uploadOk       uploadToGcs succeeds
\*   updateOk       the UPDATE with the result succeeds
\*   errorUpdateOk  the UPDATE with the "ERROR" marker succeeds
TtsRows ==
    [original_text : TtsTexts, sameLength : BOOLEAN,
     synthesis : {"audio", "noAudio", "throws"}, uploadOk : BOOLEAN,
     updateOk : BOOLEAN, errorUpdateOk : BOOLEAN]

\* the rows the SELECT ... LIMIT 2 may return
TtsBatches == UNION { [1..n -> TtsRows] : n \in 0..FetchLimit }

\* HANGUL_REGEX.test(original_text)
HasHangul(text) == \E i \in 1..Len(text) : IsHangul(text[i])

\* the try block of processSingleLine: TRUE when it runs to its end, with the
\* state it leaves in the row
TryOutcome(row) ==
    IF ~HasHangul(row.original_text)
    THEN [completed |-> row.updateOk, status |-> "skipped"]
    ELSE [completed |-> /\ row.sameLength
                        /\ row.synthesis = "audio"
                        /\ row.uploadOk
                        /\ row.updateOk,
          status |-> "updated"]

\* processSingleLine: the try block, else the catch block, whose own UPDATE
\* is awaited outside any try and so throws to the caller when it fails
ProcessOutcome(row) ==
    IF TryOutcome(row).completed
    THEN [threw |-> FALSE, status |-> TryOutcome(row).status]
    ELSE IF row.errorUpdateOk
         THEN [threw |-> FALSE, status |-> "ERROR"]
         ELSE [threw |-> TRUE, status |-> "pending"]

InitTts ==
    /\ op = "generate"
    /\ requestValid = TRUE
    /\ songFound = TRUE
    /\ lyrics = <<LineGa>>
    /\ pc = "tts"
    /\ connection = "none"
    /\ fullLyricsText = <<>>
    /\ tempFile = "none"
    /\ jsonData = <<>>
    /\ closeCode = <<>>
    /\ procErrored = FALSE
    /\ outcome = Pending
    /\ allPythonResults = <<>>
    /\ scanPos = 0
    /\ results = <<>>
    /\ currentLineTimings = <<>>
    /\ lineIndex = 0
    /\ mismatchWarned = FALSE
    /\ resultWithTimings = <<>>
    /\ persisted = <<>>
    /\ httpStatus = 0
    /\ now = 0
    /\ runs = <<>>
    /\ tempDir = {}
    /\ LaterIdle
    /\ \E table \in TtsBatches :
          ttsJob = [pc |-> "start", table |-> table, rows |-> <<>>, attempted |-> 0,
                    status |-> [i \in 1..Len(table) |-> "pending"],
                    connection |-> "none"]

\* runJob up to the loop: getConnection and fetchLyricsToProcess; a throw is
\* caught as a critical error, no rows ends the job; finally releases
RunJobFetch ==
    /\ ttsJob.pc = "start"
    /\ \E fetched \in BOOLEAN :
          ttsJob' = IF fetched /\ ttsJob.table # <<>>
                    THEN [ttsJob EXCEPT !.pc = "loop", !.rows = ttsJob.table,
                                        !.connection = "held"]
                    ELSE [ttsJob EXCEPT !.pc = "finished", !.connection = "released"]
    /\ UNCHANGED <<runVars, now, runs, tempDir, laterVars>>

\* one iteration of for (const row of rows): await processSingleLine; what
\* it throws leaves the loop for the catch block of runJob, then finally
ProcessSingleLine ==
    /\ ttsJob.pc = "loop"
    /\ ttsJob.attempted < Len(ttsJob.rows)
    /\ LET i == ttsJob.attempted + 1
           result == ProcessOutcome(ttsJob.rows[i])
       IN  ttsJob' = IF result.threw
                     THEN [ttsJob EXCEPT !.attempted = i, !.pc = "finished",
                                         !.connection = "released"]
                     ELSE [ttsJob EXCEPT !.attempted = i, !.status[i] = result.status]
    /\ UNCHANGED <<runVars, now, runs, tempDir, laterVars>>

\* the loop is over: finally releases the connection
RunJobEnd ==
    /\ ttsJob.pc = "loop"
    /\ ttsJob.attempted = Len(ttsJob.rows)
    /\ ttsJob' = [ttsJob EXCEPT !.pc = "finished", !.connection = "released"]
    /\ UNCHANGED <<runVars, now, runs, tempDir, laterVars>>

NextTts ==
    \/ RunJobFetch
    \/ ProcessSingleLine
    \/ RunJobEnd

SpecTts == InitTts /\ [][NextTts]_vars

\* ------------------------------------------------- the segmenter alone
\* the lyric lines drawn: "가", "가나" and "나 a"
SegLineTexts == { <<44032>>, <<44032, 45208>>, <<45208, 32, 97>> }

SegLyrics == UNION { [1..n -> SegLineTexts] : n \in 1..MaxSegLines }

\* the tokens generate submits for line j
LineTokens(rows, j) == MatchTokens(rows[j], 1)

\* what the aligner does to the separators: nothing, drop the one between
\* lines at and at + 1, or add one after line at (0: before the first line)
Degradations(n) ==
    {[kind |-> "none", at |-> 0]}
        \cup {[kind |-> "omit", at |-> i] : i \in 1..(n - 1)}
        \cup {[kind |-> "extra", at |-> i] : i \in 0..n}

\* the separators the aligner returns in front of line j
SeparatorsBefore(j, d) ==
    LET usual == IF j = 1 THEN <<>> ELSE <<LINE_SEPARATOR>>
    IN  IF d.kind = "omit" /\ d.at = j - 1 THEN <<>>
        ELSE IF d.kind = "extra" /\ d.at = j - 1 THEN Append(usual, LINE_SEPARATOR)
        ELSE usual

\* the words the aligner returns for the lines from j on
RECURSIVE EchoWords(_, _, _)
EchoWords(rows, j, d) ==
    IF j > Len(rows)
    THEN (IF d.kind = "extra" /\ d.at = Len(rows) THEN <<LINE_SEPARATOR>> ELSE <<>>)
    ELSE SeparatorsBefore(j, d) \o LineTokens(rows, j) \o EchoWords(rows, j + 1, d)

\* the array the aligner returns, one second between its elements
EchoStream(rows, d) ==
    LET words == EchoWords(rows, 1, d)
    IN  [k \in 1..Len(words) |-> [word |-> words[k], start |-> (k - 1) * OneSecond]]

\* getSyllableTimings of generate at the point where the array has arrived
InitSeg ==
    /\ op = "generate"
    /\ requestValid = TRUE
    /\ songFound = TRUE
    /\ lyrics \in SegLyrics
    /\ pc = "scan"
    /\ connection = "held"
    /\ fullLyricsText = FullLyricsTextRefined(lyrics)
    /\ tempFile = "deleted"
    /\ jsonData = <<>>
    /\ closeCode = <<0>>
    /\ procErrored = FALSE
    /\ \E d \in Degradations(Len(lyrics)) :
          allPythonResults = EchoStream(lyrics, d)
    /\ outcome = Resolved(allPythonResults)
    /\ scanPos = 0
    /\ results = ScanStart.results
    /\ currentLineTimings = ScanStart.currentLineTimings
    /\ lineIndex = ScanStart.lineIndex
    /\ mismatchWarned = FALSE
    /\ resultWithTimings = <<>>
    /\ persisted = <<>>
    /\ httpStatus = 0
    /\ OthersIdle

NextSeg ==
    \/ ScanToken
    \/ ScanFinish

SpecSeg == InitSeg /\ [][NextSeg]_vars

\* ------------------------------------------------ the tokenizer alone
\* the characters of the lines drawn: two syllables, a space, a Latin letter
TokChars == {44032, 45208, 32, 97}

\* every line of up to MaxLineLen characters
TokLines == UNION { [1..n -> TokChars] : n \in 0..MaxLineLen }

\* generate is entered for a song of one lyric line
InitTok ==
    /\ op = "generate"
    /\ requestValid = TRUE
    /\ songFound = TRUE
    /\ lyrics \in { <<line>> : line \in TokLines }
    /\ pc = "start"
    /\ connection = "none"
    /\ fullLyricsText = <<>>
    /\ tempFile = "none"
    /\ jsonData = <<>>
    /\ closeCode = <<>>
    /\ procErrored = FALSE
    /\ outcome = Pending
    /\ allPythonResults = <<>>
    /\ scanPos = 0
    /\ results = <<>>
    /\ currentLineTimings = <<>>
    /\ lineIndex = 0
    /\ mismatchWarned = FALSE
    /\ resultWithTimings = <<>>
    /\ persisted = <<>>
    /\ httpStatus = 0
    /\ OthersIdle

NextTok == Begin

SpecTok == InitTok /\ [][NextTok]_vars

\* ------------------------- ElevenLabsTTSProcessor: retryOne and runJob
\* text.replace(/[^가-힣 ]/g, "")
KeepHangulAndSpace(text) == SelectSeq(text, LAMBDA c : IsHangul(c) \/ c = 32)

\* .replace(/ +/g, " "): every run of spaces becomes one space
RECURSIVE CollapseSpaces(_)
CollapseSpaces(text) ==
    IF Len(text) < 2 THEN text
    ELSE IF text[1] = 32 /\ text[2] = 32 THEN CollapseSpaces(Tail(text))
    ELSE <<text[1]>> \o CollapseSpaces(Tail(text))

\* String.prototype.trim
RECURSIVE Trim(_)
Trim(text) ==
    IF text = <<>> THEN text
    ELSE IF IsSpace(text[1]) THEN Trim(Tail(text))
    ELSE IF IsSpace(text[Len(text)]) THEN Trim(SubSeq(text, 1, Len(text) - 1))
    ELSE text

refineLyric(text) == Trim(CollapseSpaces(KeepHangulAndSpace(text)))

\* original_text of the rows of lyric_line: "가", "나 a" and "a"
ElevenTexts == { <<44032>>, <<45208, 32, 97>>, <<97>> }

\* native_audio_url of a row before the job is a Google TTS URL, which the
\* selection of runJob matches, or an ElevenLabs URL written earlier.
\* the tables drawn: row i has lyric_line_id i, syllable_timings NULL (<<>>)
ElevenTables ==
    UNION { { [i \in 1..MaxElevenRows |->
                 [lyric_line_id |-> i, original_text |-> texts[i],
                  native_audio_url |-> IF i \in google THEN <<"google-lyrics", i>>
                                       ELSE <<"elevenlabs-lyrics", i, 0>>,
                  syllable_timings |-> <<>>]] :
              texts \in [1..MaxElevenRows -> ElevenTexts] } :
            google \in SUBSET (1..MaxElevenRows) }

\* the calls drawn: retryOne(lyricLineId, lyricText), the id of a row or of
\* none, the text empty or "가"; and runJob()
ElevenCalls ==
    [entry : {"retryOne"}, lyricLineId : 1..(MaxElevenRows + 1),
     lyricText : {<<>>, <<44032>>}]
    \cup {[entry |-> "runJob", lyricLineId |-> 0, lyricText |-> <<>>]}

\* what convertWithTimestamps does: throws, answers without audio, with audio
\* but no alignment, or with audio and the alignment of the text's characters
ElevenResponses == {"throws", "noAudio", "audioOnly", "aligned"}

\* WHERE native_audio_url LIKE '%google-lyrics%' OR native_audio_url LIKE '%RETRY%'
Selected(row) == row.native_audio_url # <<>> /\ row.native_audio_url[1] \in {"google-lyrics", "RETRY"}

\* the positions of the rows fetchLyricById returns
RowsById(table, id) == {i \in 1..Len(table) : table[i].lyric_line_id = id}

\* uploadToGcs(audioBuffer, `lyric-${lyric_line_id}-${Date.now()}`)
UploadedUrl(id, time) == <<"elevenlabs-lyrics", id, time>>

\* parseTimings: one timing per character of the alignment that is not " ",
\* "[]" without alignment; the alignment has the characters of the text,
\* character i starting at tick i - 1
parseTimings(response, text) ==
    IF response # "aligned" THEN <<JSONStringify(<<>>)>>
    ELSE LET all == [i \in 1..Len(text) |-> [timeSeconds |-> i - 1, markName |-> <<text[i]>>]]
         IN  <<JSONStringify(SelectSeq(all, LAMBDA t : t.markName # <<32>>))>>

\* an UPDATE that stops at the first row with the text (LIMIT 1)
updateLyricLineFirst(table, original_text, ttsUrl, timingsJson) ==
    LET hits == {i \in 1..Len(table) : table[i].original_text = original_text}
    IN  [i \in 1..Len(table) |->
            IF i \in hits /\ \A j \in hits : i <= j
            THEN [table[i] EXCEPT !.native_audio_url = ttsUrl,
                                  !.syllable_timings = timingsJson]
            ELSE table[i]]

\* UPDATE lyric_line SET native_audio_url = ?, syllable_timings = ?
\* WHERE original_text = ?
updateLyricLine(table, original_text, ttsUrl, timingsJson) ==
    [i \in 1..Len(table) |->
        IF table[i].original_text = original_text
        THEN [table[i] EXCEPT !.native_audio_url = ttsUrl,
                              !.syllable_timings = timingsJson]
        ELSE table[i]]

InitEleven ==
    /\ op = "generate"
    /\ requestValid = TRUE
    /\ songFound = TRUE
    /\ lyrics = <<LineGa>>
    /\ pc = "eleven"
    /\ connection = "none"
    /\ fullLyricsText = <<>>
    /\ tempFile = "none"
    /\ jsonData = <<>>
    /\ closeCode = <<>>
    /\ procErrored = FALSE
    /\ outcome = Pending
    /\ allPythonResults = <<>>
    /\ scanPos = 0
    /\ results = <<>>
    /\ currentLineTimings = <<>>
    /\ lineIndex = 0
    /\ mismatchWarned = FALSE
    /\ resultWithTimings = <<>>
    /\ persisted = <<>>
    /\ httpStatus = 0
    /\ now = 0
    /\ runs = <<>>
    /\ tempDir = {}
    /\ ttsJob = NoJob
    /\ pipeline = NoPipeline
    /\ \E table \in ElevenTables, call \in ElevenCalls :
          elevenJob = [pc |-> "start", connection |-> "none", call |-> call,
                       lyric_line |-> table, before |-> table, row |-> 0,
                       refinedText |-> <<>>, written |-> <<>>]

\* retryOne and runJob up to processSingleLine: getConnection, then
\* fetchLyricById (retryOne returns unless exactly one row comes back) or
\* fetchLyricsToProcess with LIMIT 1 (runJob returns when no row comes back;
\* which selected row comes back is the server's choice).  A throw of
\* getConnection leaves connection null; a throw of the query is caught and
\* finally releases.
ElevenFetch ==
    /\ elevenJob.pc = "start"
    /\ \E connected \in BOOLEAN, fetched \in BOOLEAN :
          LET call == elevenJob.call
              table == elevenJob.lyric_line
              found == IF call.entry = "retryOne"
                       THEN (IF Cardinality(RowsById(table, call.lyricLineId)) = 1
                             THEN RowsById(table, call.lyricLineId) ELSE {})
                       ELSE {i \in 1..Len(table) : Selected(table[i])}
          IN  IF ~connected
              THEN elevenJob' = [elevenJob EXCEPT !.pc = "finished"]
              ELSE IF ~fetched \/ found = {}
              THEN elevenJob' = [elevenJob EXCEPT !.pc = "finished",
                                                  !.connection = "released"]
              ELSE \E i \in found :
                      elevenJob' = [elevenJob EXCEPT
                          !.pc = "process", !.connection = "held", !.row = i,
                          !.refinedText = IF call.entry = "retryOne"
                                          THEN call.lyricText
                                          ELSE refineLyric(table[i].original_text)]
    /\ UNCHANGED <<runVars, now, runs, tempDir, ttsJob, pipeline>>

\* processSingleLine and the return through finally.  Without refined text
\* the row's text is updated to "" and "[]", outside the try, so a failure of
\* that UPDATE is caught by the caller.  Otherwise synthesis, upload and
\* UPDATE run inside the try, whose catch only logs.
ElevenProcessSingleLine ==
    /\ elevenJob.pc = "process"
    /\ \E response \in ElevenResponses, uploadOk \in BOOLEAN, updateOk \in BOOLEAN :
          LET row == elevenJob.lyric_line[elevenJob.row]
              skip == elevenJob.refinedText = <<>>
              ttsUrl == IF skip THEN <<>> ELSE UploadedUrl(row.lyric_line_id, now)
              timingsJson == IF skip THEN <<JSONStringify(<<>>)>>
                             ELSE parseTimings(response, elevenJob.refinedText)
              updates == /\ updateOk
                         /\ skip \/ (response \in {"audioOnly", "aligned"} /\ uploadOk)
          IN  elevenJob' = [elevenJob EXCEPT
                  !.pc = "finished", !.connection = "released",
                  !.lyric_line = IF updates
                                 THEN updateLyricLine(@, row.original_text, ttsUrl,
                                                      timingsJson)
                                 ELSE @,
                  !.written = IF updates THEN <<[url |-> ttsUrl, timings |-> timingsJson]>>
                              ELSE <<>>]
    /\ UNCHANGED <<runVars, now, runs, tempDir, ttsJob, pipeline>>

NextEleven ==
    \/ ElevenFetch
    \/ ElevenProcessSingleLine

SpecEleven == InitEleven /\ [][NextEleven]_vars

\* ------------------------------------------------- PipelineService.run
\* the character class [ㄱ-ㅎ|ㅏ-ㅣ|가-힣] of createTTS and hasKorean: the
\* compatibility jamo, the bar, and the syllable blocks
IsKorean(c) ==
    \/ (c >= JamoFirst /\ c <= JamoLast)
    \/ c = 124
    \/ IsHangul(c)

\* hasKorean(text), and the hasHangul test of createTTS
hasKorean(text) == \E i \in 1..Len(text) : IsKorean(text[i])

\* words of the fetched lyric lines: "가", "나a" and "a"
PipeWords == { <<44032>>, <<45208, 97>>, <<97>> }

\* what fetchLyrics returns: line i starts at i - 1 seconds
PipeLyrics ==
    UNION { { [i \in 1..n |-> [words |-> w[i], startTimeMs |-> (i - 1) * 1000]] :
              w \in [1..n -> PipeWords] } : n \in 0..MaxPipeLines }

\* romanizeService.convert(text), kept symbolic
Romanize(text) == [romanized |-> text]

\* the element translateBatch returns for a text, kept symbolic
Translate(text) == [translated |-> text]

\* the public URL createTTS resolves with for a text
TtsUrl(text) == <<"tts", text>>

\* a call of createTTS(text) for line idx (char 0) or for its character at
\* position char, up to its first await: a cached text and a text without
\* Korean are answered without the service, any other text is sent to it
CreateTTS(cache, idx, char, text) ==
    LET trimmedText == Trim(text)
    IN  [idx |-> idx, char |-> char, text |-> trimmedText,
         remote |-> trimmedText \notin cache /\ hasKorean(trimmedText),
         value |-> IF trimmedText \in cache THEN TtsUrl(trimmedText) ELSE <<>>]

\* what a service may throw: an Error with a message, an Error whose
\* message is empty, or a value that is not an Error
Thrown ==
    { [isError |-> TRUE, message |-> "failed"],
      [isError |-> TRUE, message |-> ""],
      [isError |-> FALSE, message |-> "failed"] }

\* nothing thrown
NoError == [isError |-> FALSE, message |-> ""]

\* what a pending call of createTTS can settle to: its value, or for a call
\* sent to the service, the new URL or a rejection, which is the wrapped
\* Error of the catch block or the error event of a stream as it came
Settlements(request) ==
    IF request.remote
    THEN {[ok |-> TRUE, value |-> TtsUrl(request.text), error |-> NoError]}
         \cup {[ok |-> FALSE, value |-> <<>>, error |-> e] : e \in Thrown}
    ELSE {[ok |-> TRUE, value |-> request.value, error |-> NoError]}

\* the position of the first character of text after position from that
\* hasKorean accepts, 0 when there is none
NextKorean(text, from) ==
    LET later == {p \in (from + 1)..Len(text) : IsKorean(text[p])}
    IN  IF later = {} THEN 0 ELSE CHOOSE p \in later : \A q \in later : p <= q

\* the successPayload built from processedLines (songId and title left out)
SuccessPayload(processedLines) == [lines |-> processedLines]

\* the failPayload of the catch block of the version that returns a result
FailPayload(songId, error) ==
    [songId |-> songId,
     error |-> IF error.isError THEN error.message
               ELSE "Unknown error occurred during processing."]

InitPipe ==
    /\ op = "generate"
    /\ requestValid = TRUE
    /\ songFound = TRUE
    /\ lyrics = <<LineGa>>
    /\ pc = "pipeline"
    /\ connection = "none"
    /\ fullLyricsText = <<>>
    /\ tempFile = "none"
    /\ jsonData = <<>>
    /\ closeCode = <<>>
    /\ procErrored = FALSE
    /\ outcome = Pending
    /\ allPythonResults = <<>>
    /\ scanPos = 0
    /\ results = <<>>
    /\ currentLineTimings = <<>>
    /\ lineIndex = 0
    /\ mismatchWarned = FALSE
    /\ resultWithTimings = <<>>
    /\ persisted = <<>>
    /\ httpStatus = 0
    /\ now = 0
    /\ runs = <<>>
    /\ tempDir = {}
    /\ ttsJob = NoJob
    /\ elevenJob = NoElevenJob
    /\ \E version \in {"forEach", "forOf"}, lyricsData \in PipeLyrics, songId \in SongIds :
          pipeline = [pc |-> "start", version |-> version, lyricsData |-> lyricsData,
                      songId |-> songId, returned |-> <<>>, status |-> 0,
                      translatedLyricsTexts |-> <<>>, processedLines |-> <<>>,
                      inFlight |-> {}, started |-> {}, completed |-> {},
                      audioUrl |-> <<>>, processedSyllables |-> <<>>,
                      audioCache |-> {}, handed |-> <<>>, payloadJson |-> <<>>,
                      result |-> "none"]

\* run up to its first await inside the line processing.  fetchLyrics,
\* translateText or translateBatch may throw: the catch block ends the run.
\* In the version that returns a result the catch block returns failPayload.
\* Otherwise the forEach version calls the async callback for every line,
\* each up to its await of createTTS, then builds successPayload and calls
\* saveDebugFile, which awaits fs.mkdir; the for...of version calls createTTS
\* for the first line, or with no lines builds the payload and returns it.
PipeBegin ==
    /\ pipeline.pc = "start"
    /\ \E fetched \in BOOLEAN, e \in Thrown :
          LET lyricsData == pipeline.lyricsData
              n == Len(lyricsData)
              translated == [i \in 1..n |-> Translate(lyricsData[i].words)]
          IN  IF ~fetched
              THEN pipeline' = [pipeline EXCEPT
                      !.pc = "finished", !.result = "fail",
                      !.returned = IF pipeline.version = "forOf"
                                   THEN <<FailPayload(pipeline.songId, e)>> ELSE <<>>]
              ELSE IF pipeline.version = "forEach"
              THEN pipeline' = [pipeline EXCEPT
                      !.pc = "saving",
                      !.translatedLyricsTexts = translated,
                      !.inFlight = {CreateTTS(pipeline.audioCache, i, 0,
                                              lyricsData[i].words) : i \in 1..n},
                      !.started = 1..n,
                      !.handed = <<SuccessPayload(pipeline.processedLines)>>]
              ELSE IF n = 0
              THEN pipeline' = [pipeline EXCEPT
                      !.pc = "finished",
                      !.handed = <<SuccessPayload(pipeline.processedLines)>>,
                      !.returned = <<SuccessPayload(pipeline.processedLines)>>,
                      !.result = "success"]
              ELSE pipeline' = [pipeline EXCEPT
                      !.pc = "awaiting",
                      !.translatedLyricsTexts = translated,
                      !.inFlight = {CreateTTS(pipeline.audioCache, 1, 0,
                                              lyricsData[1].words)},
                      !.started = {1}]
    /\ UNCHANGED <<runVars, now, runs, tempDir, ttsJob, elevenJob>>

\* forEach version: one pending createTTS settles and its callback goes on:
\* processedLines.push, whatever run is doing; a rejection ends the callback
\* with nothing pushed and nobody told
PipeSettleForEach ==
    /\ pipeline.version = "forEach"
    /\ \E request \in pipeline.inFlight : \E s \in Settlements(request) :
          LET line == pipeline.lyricsData[request.idx]
              entry == [startTime |-> line.startTimeMs, words |-> line.words,
                        romanized |-> Romanize(line.words),
                        translated |-> pipeline.translatedLyricsTexts[request.idx],
                        nativeAudio |-> s.value]
          IN  pipeline' = [pipeline EXCEPT
                  !.inFlight = @ \ {request},
                  !.completed = @ \cup {request.idx},
                  !.audioCache = IF s.ok /\ request.remote
                                 THEN @ \cup {request.text} ELSE @,
                  !.processedLines = IF s.ok THEN Append(@, entry) ELSE @]
    /\ UNCHANGED <<runVars, now, runs, tempDir, ttsJob, elevenJob>>

\* saveDebugFile after fs.mkdir: JSON.stringify(payload) reads the lines
\* pushed so far; a throw of mkdir is caught by run
PipeStringify ==
    /\ pipeline.pc = "saving"
    /\ \E made \in BOOLEAN :
          pipeline' = IF made
                      THEN [pipeline EXCEPT
                              !.pc = "writing",
                              !.payloadJson = <<JSONStringify(
                                  SuccessPayload(pipeline.processedLines))>>]
                      ELSE [pipeline EXCEPT !.pc = "finished", !.result = "fail"]
    /\ UNCHANGED <<runVars, now, runs, tempDir, ttsJob, elevenJob>>

\* saveDebugFile after fs.writeFile, and the end of run
PipeWriteFile ==
    /\ pipeline.pc = "writing"
    /\ \E written \in BOOLEAN :
          pipeline' = [pipeline EXCEPT
                          !.pc = "finished",
                          !.result = IF written THEN "success" ELSE "fail"]
    /\ UNCHANGED <<runVars, now, runs, tempDir, ttsJob, elevenJob>>

\* for...of version: the awaited createTTS settles and run goes on to its
\* next await: a rejection, or a throw of romanizeService.convert before the
\* next call, is caught and the fail payload returned; the
\* line's own audio is followed by one createTTS per Korean character; after
\* the last of them the line is pushed and the next line begun, or after the
\* last line the payload is built and returned
PipeSettleForOf ==
    /\ pipeline.version = "forOf"
    /\ pipeline.pc = "awaiting"
    /\ \E request \in pipeline.inFlight, romanized \in Thrown \cup {NoError} :
       \E s \in Settlements(request) :
          LET idx == request.idx
              line == pipeline.lyricsData[idx]
              n == Len(pipeline.lyricsData)
              cache == IF s.ok /\ request.remote
                       THEN pipeline.audioCache \cup {request.text}
                       ELSE pipeline.audioCache
              audioUrl == IF request.char = 0 THEN s.value ELSE pipeline.audioUrl
              syllables ==
                  IF request.char = 0 THEN <<>>
                  ELSE Append(pipeline.processedSyllables,
                              [textKor |-> <<line.words[request.char]>>,
                               romanized |-> Romanize(<<line.words[request.char]>>),
                               nativeAudio |-> s.value])
              next == NextKorean(line.words, request.char)
              entry == [startTime |-> line.startTimeMs, words |-> line.words,
                        romanized |-> Romanize(line.words),
                        translated |-> pipeline.translatedLyricsTexts[idx],
                        nativeAudio |-> audioUrl, syllables |-> syllables]
              pushed == Append(pipeline.processedLines, entry)
          IN  IF ~s.ok
              THEN pipeline' = [pipeline EXCEPT
                      !.pc = "finished", !.inFlight = {}, !.audioCache = cache,
                      !.result = "fail",
                      !.returned = <<FailPayload(pipeline.songId, s.error)>>]
              ELSE IF (next # 0 \/ idx < n) /\ romanized # NoError
              THEN pipeline' = [pipeline EXCEPT
                      !.pc = "finished", !.inFlight = {}, !.audioCache = cache,
                      !.result = "fail",
                      !.returned = <<FailPayload(pipeline.songId, romanized)>>]
              ELSE IF next # 0
              THEN pipeline' = [pipeline EXCEPT
                      !.inFlight = {CreateTTS(cache, idx, next, <<line.words[next]>>)},
                      !.audioCache = cache, !.audioUrl = audioUrl,
                      !.processedSyllables = syllables]
              ELSE IF idx < n
              THEN pipeline' = [pipeline EXCEPT
                      !.inFlight = {CreateTTS(cache, idx + 1, 0,
                                              pipeline.lyricsData[idx + 1].words)},
                      !.started = @ \cup {idx + 1},
                      !.completed = @ \cup {idx},
                      !.audioCache = cache, !.audioUrl = <<>>,
                      !.processedSyllables = <<>>,
                      !.processedLines = pushed]
              ELSE pipeline' = [pipeline EXCEPT
                      !.pc = "finished", !.inFlight = {},
                      !.completed = @ \cup {idx},
                      !.audioCache = cache, !.audioUrl = <<>>,
                      !.processedSyllables = <<>>,
                      !.processedLines = pushed,
                      !.handed = <<SuccessPayload(pushed)>>,
                      !.returned = <<SuccessPayload(pushed)>>,
                      !.result = "success"]
    /\ UNCHANGED <<runVars, now, runs, tempDir, ttsJob, elevenJob>>

\* POST /create-content after await pipelineService.run(...) of the version
\* that returns a result: 422 for a result with an error key, else 200
CreateContentRespond ==
    /\ pipeline.version = "forOf"
    /\ pipeline.pc = "finished"
    /\ pipeline.returned # <<>>
    /\ pipeline' = [pipeline EXCEPT
           !.pc = "responded",
           !.status = IF "error" \in DOMAIN pipeline.returned[1]
                      THEN StatusUnprocessable ELSE StatusOk]
    /\ UNCHANGED <<runVars, now, runs, tempDir, ttsJob, elevenJob>>

NextPipe ==
    \/ PipeBegin
    \/ PipeSettleForEach
    \/ PipeStringify
    \/ PipeWriteFile
    \/ PipeSettleForOf
    \/ CreateContentRespond

SpecPipe == InitPipe /\ [][NextPipe]_vars

\* ------------------------------------ every holder of a DB connection
\* one call of generate or generateFallback behind POST /song-timing, or one
\* runJob of TTSProcessor, or one retryOne or runJob of ElevenLabsTTSProcessor
InitConn ==
    \/ Init
    \/ InitTts
    \/ InitEleven

NextConn ==
    \/ Next
    \/ NextTts
    \/ NextEleven

SpecConn == InitConn /\ [][NextConn]_vars

\* ------------------------------- TTSProcessor.runJob, run after run
\* native_audio_url of a row that waits for its speech
PendingUrl == <<"PENDING_TTS_URL">>

\* a row of lyric_line as the jobs may find it: waiting with no timings,
\* waiting with timings left from before, or done
CronRowStates ==
    { [native_audio_url |-> PendingUrl, syllable_timings |-> <<>>],
      [native_audio_url |-> PendingUrl, syllable_timings |-> <<JSONStringify(<<>>)>>],
      [native_audio_url |-> <<>>, syllable_timings |-> <<JSONStringify(<<>>)>>] }

\* the tables drawn: row i has lyric_line_id i
CronTables ==
    { [i \in 1..MaxCronRows |->
          [lyric_line_id |-> i, original_text |-> texts[i],
           native_audio_url |-> states[i].native_audio_url,
           syllable_timings |-> states[i].syllable_timings]] :
      texts \in [1..MaxCronRows -> TtsTexts],
      states \in [1..MaxCronRows -> CronRowStates] }

\* WHERE syllable_timings IS NULL OR native_audio_url = 'PENDING_TTS_URL'
SelectedForTts(row) ==
    row.syllable_timings = <<>> \/ row.native_audio_url = PendingUrl

\* what SELECT ... LIMIT limit may return: the selected rows when they are
\* no more than limit, else any limit of them, in any order
RECURSIVE Orders(_)
Orders(S) ==
    IF S = {} THEN {<<>>}
    ELSE UNION { { <<i>> \o rest : rest \in Orders(S \ {i}) } : i \in S }

FetchResults(table, limit) ==
    LET selected == {i \in 1..Len(table) : SelectedForTts(table[i])}
        size == IF Cardinality(selected) < limit THEN Cardinality(selected) ELSE limit
    IN  UNION { Orders(S) : S \in {T \in SUBSET selected : Cardinality(T) = size} }

\* uploadToGcs(audioContent, `lyric-${lyric_line_id}-${Date.now()}`)
GoogleUrl(id, time) == <<"google-lyrics", id, time>>

\* the timings JSON of a synthesized text: one timepoint per syllable block
GoogleTimings(text) ==
    LET marks == SelectSeq([i \in 1..Len(text) |-> [timeSeconds |-> i, markName |-> <<text[i]>>]],
                           LAMBDA t : IsHangul(t.markName[1]))
    IN  <<JSONStringify(marks)>>

\* the UPDATE processSingleLine leaves behind for the row with this id: none
\* when it threw, else the skip values, the result or the "ERROR" marker
UpdateById(table, id, status, time) ==
    [i \in 1..Len(table) |->
        IF table[i].lyric_line_id # id \/ status = "pending" THEN table[i]
        ELSE IF status = "skipped"
        THEN [table[i] EXCEPT !.native_audio_url = <<>>,
                              !.syllable_timings = <<JSONStringify(<<>>)>>]
        ELSE IF status = "updated"
        THEN [table[i] EXCEPT !.native_audio_url = GoogleUrl(id, time),
                              !.syllable_timings = GoogleTimings(table[i].original_text)]
        ELSE [table[i] EXCEPT !.native_audio_url = <<"ERROR">>,
                              !.syllable_timings = <<JSONStringify(<<[error |-> "message"]>>)>>]]

\* a job execution that has not reached its first await
NewJob == [pc |-> "start", rows |-> <<>>, attempted |-> 0, connection |-> "none"]

InitCron ==
    /\ op = "generate"
    /\ requestValid = TRUE
    /\ songFound = TRUE
    /\ lyrics = <<LineGa>>
    /\ pc = "cron"
    /\ connection = "none"
    /\ fullLyricsText = <<>>
    /\ tempFile = "none"
    /\ jsonData = <<>>
    /\ closeCode = <<>>
    /\ procErrored = FALSE
    /\ outcome = Pending
    /\ allPythonResults = <<>>
    /\ scanPos = 0
    /\ results = <<>>
    /\ currentLineTimings = <<>>
    /\ lineIndex = 0
    /\ mismatchWarned = FALSE
    /\ resultWithTimings = <<>>
    /\ persisted = <<>>
    /\ httpStatus = 0
    /\ now = 0
    /\ runs = <<>>
    /\ tempDir = {}
    /\ LaterIdle
    /\ \E table \in CronTables :
          ttsJob = [pc |-> "cron", lyric_line |-> table, jobs |-> <<NewJob>>,
                    processed |-> [i \in 1..MaxCronRows |-> 0],
                    returned |-> {}, connection |-> "none"]

\* the cron schedule fires: runJob is called, whatever the earlier executions
\* are doing
CronFire ==
    /\ ttsJob.pc = "cron"
    /\ Len(ttsJob.jobs) < MaxCronJobs
    /\ ttsJob' = [ttsJob EXCEPT !.jobs = Append(@, NewJob)]
    /\ UNCHANGED <<runVars, now, runs, tempDir, laterVars>>

\* runJob is called again after the executions before it have finished
RunJobAgain ==
    /\ \A k \in 1..Len(ttsJob.jobs) : ttsJob.jobs[k].pc = "finished"
    /\ CronFire

\* runJob of execution k up to the loop: getConnection and
\* fetchLyricsToProcess; a throw or no rows ends the execution
CronJobFetch ==
    /\ ttsJob.pc = "cron"
    /\ \E k \in 1..Len(ttsJob.jobs) :
          /\ ttsJob.jobs[k].pc = "start"
          /\ \E fetched \in BOOLEAN :
                \E rows \in FetchResults(ttsJob.lyric_line, FetchLimit) :
                    ttsJob' = IF fetched /\ rows # <<>>
                              THEN [ttsJob EXCEPT !.jobs[k].pc = "loop",
                                                  !.jobs[k].rows = rows,
                                                  !.jobs[k].connection = "held"]
                              ELSE [ttsJob EXCEPT !.jobs[k].pc = "finished",
                                                  !.jobs[k].connection = "released"]
    /\ UNCHANGED <<runVars, now, runs, tempDir, laterVars>>

\* one iteration of the loop of execution k: processSingleLine for the next
\* fetched row, with what the services do this time; a throw ends the
\* execution
CronJobProcess ==
    /\ ttsJob.pc = "cron"
    /\ \E k \in 1..Len(ttsJob.jobs) :
          /\ ttsJob.jobs[k].pc = "loop"
          /\ ttsJob.jobs[k].attempted < Len(ttsJob.jobs[k].rows)
          /\ LET i == ttsJob.jobs[k].attempted + 1
                 id == ttsJob.jobs[k].rows[i]
                 text == ttsJob.lyric_line[id].original_text
             IN  \E result \in {ProcessOutcome(r) : r \in {t \in TtsRows : t.original_text = text}} :
                        ttsJob' = [ttsJob EXCEPT
                            !.jobs[k].attempted = i,
                            !.jobs[k].pc = IF result.threw THEN "finished" ELSE @,
                            !.jobs[k].connection = IF result.threw THEN "released" ELSE @,
                            !.processed[id] = @ + 1,
                            !.returned = IF result.threw THEN @ ELSE @ \cup {id},
                            !.lyric_line = UpdateById(@, id, result.status, now)]
    /\ UNCHANGED <<runVars, now, runs, tempDir, laterVars>>

\* the loop of execution k is over: finally releases the connection
CronJobEnd ==
    /\ ttsJob.pc = "cron"
    /\ \E k \in 1..Len(ttsJob.jobs) :
          /\ ttsJob.jobs[k].pc = "loop"
          /\ ttsJob.jobs[k].attempted = Len(ttsJob.jobs[k].rows)
          /\ ttsJob' = [ttsJob EXCEPT !.jobs[k].pc = "finished",
                                      !.jobs[k].connection = "released"]
    /\ UNCHANGED <<runVars, now, runs, tempDir, laterVars>>

\* runJob called again and again, each call after the one before has ended
NextRepeat ==
    \/ RunJobAgain
    \/ CronJobFetch
    \/ CronJobProcess
    \/ CronJobEnd

SpecRepeat == InitCron /\ [][NextRepeat]_vars

\* runJob called by the schedule
NextCron ==
    \/ CronFire
    \/ CronJobFetch
    \/ CronJobProcess
    \/ CronJobEnd

SpecCron == InitCron /\ [][NextCron]_vars

\* --------------------- ElevenLabsTTSProcessor.runJob, run after run
\* the schedule calls runJob again and again; the rows in failing are those
\* whose synthesis fails every time, every other call succeeds
InitElevenCron ==
    /\ op = "generate"
    /\ requestValid = TRUE
    /\ songFound = TRUE
    /\ lyrics = <<LineGa>>
    /\ pc = "elevenCron"
    /\ connection = "none"
    /\ fullLyricsText = <<>>
    /\ tempFile = "none"
    /\ jsonData = <<>>
    /\ closeCode = <<>>
    /\ procErrored = FALSE
    /\ outcome = Pending
    /\ allPythonResults = <<>>
    /\ scanPos = 0
    /\ results = <<>>
    /\ currentLineTimings = <<>>
    /\ lineIndex = 0
    /\ mismatchWarned = FALSE
    /\ resultWithTimings = <<>>
    /\ persisted = <<>>
    /\ httpStatus = 0
    /\ now = 0
    /\ runs = <<>>
    /\ tempDir = {}
    /\ ttsJob = NoJob
    /\ pipeline = NoPipeline
    /\ \E table \in ElevenTables, failing \in SUBSET (1..MaxElevenRows) :
          elevenJob = [pc |-> "start", connection |-> "none",
                       call |-> [entry |-> "runJob", lyricLineId |-> 0, lyricText |-> <<>>],
                       lyric_line |-> table, before |-> table, row |-> 0,
                       refinedText |-> <<>>, written |-> <<>>, failing |-> failing]

\* the schedule fires after the execution before it has finished
ElevenRunJobAgain ==
    /\ elevenJob.pc = "finished"
    /\ elevenJob' = [elevenJob EXCEPT !.pc = "start", !.connection = "none",
                                      !.before = elevenJob.lyric_line, !.row = 0,
                                      !.refinedText = <<>>, !.written = <<>>]
    /\ UNCHANGED <<runVars, now, runs, tempDir, ttsJob, pipeline>>

\* getConnection and the query succeed: a selected row is handed on, and the
\* execution ends at once only when no row is selected
ElevenCronFetch ==
    /\ ElevenFetch
    /\ \/ elevenJob'.pc = "process"
       \/ \A i \in 1..Len(elevenJob.lyric_line) : ~Selected(elevenJob.lyric_line[i])

\* processSingleLine writes its result unless the row is one of those whose
\* synthesis fails; for those it writes nothing
ElevenCronProcess ==
    /\ ElevenProcessSingleLine
    /\ (elevenJob'.written = <<>>) <=> (elevenJob.row \in elevenJob.failing /\ elevenJob.refinedText # <<>>)

NextElevenCron ==
    \/ ElevenRunJobAgain
    \/ ElevenCronFetch
    \/ ElevenCronProcess

SpecElevenCron ==
    InitElevenCron /\ [][NextElevenCron]_vars /\ WF_vars(NextElevenCron)

\* ------------------------------------------------- claims: interpolation
\* the interpolation of generateFallback has run: results holds what
\* getSyllableTimings returned, resultWithTimings what the map made of it
Interpolated == op = "generateFallback" /\ pc \in {"persist", "returned"}

\* the places of a word where a syllable unit other than the first begins
UnitStarts(markName) == {i \in 2..Len(markName) : IsHangul(markName[i])}

\* the number of timings a word occupies after interpolation
Slots(markName) == 1 + Cardinality(UnitStarts(markName))

\* the place in the output line of the first timing of word w
RECURSIVE OutPos(_, _)
OutPos(timings, w) ==
    IF w = 1 THEN 1 ELSE OutPos(timings, w - 1) + Slots(timings[w - 1].markName)

\* C11: after interpolation every word of one syllable unit stands, with its
\* timeSeconds and markName unchanged, exactly once at the place its
\* predecessors' syllables leave it, whatever its neighbours are
C11_SinglePassthrough ==
    Interpolated =>
        \A l \in 1..Len(results) :
            LET in == results[l].timings
                out == resultWithTimings[l].timings
            IN  /\ Len(out) = OutPos(in, Len(in) + 1) - 1
                /\ \A w \in 1..Len(in) :
                      Slots(in[w].markName) = 1 => out[OutPos(in, w)] = in[w]

\* a one-unit word between two three-syllable words has been interpolated
C11_Witness ==
    /\ Interpolated
    /\ \E l \in 1..Len(results) :
          /\ Len(results[l].timings) = 3
          /\ Slots(results[l].timings[1].markName) = 3
          /\ results[l].timings[2].markName = <<44032, 97>>
          /\ Slots(results[l].timings[3].markName) = 3
          /\ Len(resultWithTimings[l].timings) = 7


\* the place in a word where its i-th syllable unit begins (i from 1)
UnitStart(markName, i) ==
    CHOOSE p \in {1} \cup UnitStarts(markName) :
        Cardinality({q \in {1} \cup UnitStarts(markName) : q < p}) = i - 1

\* the i-th syllable unit of a word: from its start to the next unit's start
UnitAt(markName, i) ==
    SubSeq(markName, UnitStart(markName, i),
           IF i = Slots(markName) THEN Len(markName)
           ELSE UnitStart(markName, i + 1) - 1)

\* max(0, e - s)
Span(s, e) == IF e > s THEN e - s ELSE 0

\* C12: a word of k > 1 syllable units with start s and end boundary e is
\* replaced in place by k timings, the i-th (from 0) named by the i-th unit
\* and timed s + i * max(0, e - s) / k (stated without the division)
C12_InterpolationArithmetic ==
    Interpolated =>
        \A l \in 1..Len(results) :
            LET in == results[l].timings
                out == resultWithTimings[l].timings
            IN  \A w \in 1..Len(in) :
                    LET k == Slots(in[w].markName)
                        s == in[w].timeSeconds
                        e == EndTime(results, l, w)
                    IN  k > 1 =>
                            \A i \in 0..(k - 1) :
                                LET o == out[OutPos(in, w) + i]
                                IN  /\ o.markName = UnitAt(in[w].markName, i + 1)
                                    /\ k * (o.timeSeconds - s) = i * Span(s, e)

\* the three-syllable word at 1.0 s before a word at 2.0 s came out at
\* 1.0, 1.333.. and 1.666.. s
C12_Witness ==
    /\ Interpolated
    /\ \E l \in 1..Len(results) :
          /\ Len(results[l].timings) = 2
          /\ results[l].timings[1] =
                [timeSeconds |-> OneSecond, markName |-> <<47560, 49884, 44256>>]
          /\ results[l].timings[2].timeSeconds = 2 * OneSecond
          /\ resultWithTimings[l].timings[1] =
                [timeSeconds |-> OneSecond, markName |-> <<47560>>]
          /\ 3 * resultWithTimings[l].timings[2].timeSeconds = 4 * OneSecond
          /\ resultWithTimings[l].timings[2].markName = <<49884>>
          /\ 3 * resultWithTimings[l].timings[3].timeSeconds = 5 * OneSecond
          /\ resultWithTimings[l].timings[3].markName = <<44256>>

\* the end boundary as the rule states it: the next word of the line, else
\* the first timing of the following line, else one second after the start
StatedEnd(all, l, w) ==
    IF w < Len(all[l].timings) THEN all[l].timings[w + 1].timeSeconds
    ELSE IF l < Len(all) /\ all[l + 1].timings # <<>>
         THEN all[l + 1].timings[1].timeSeconds
         ELSE all[l].timings[w].timeSeconds + OneSecond

\* C13: the span a multi-syllable word is spread over, read off its second
\* syllable, is the one up to the stated end boundary; the last word of the
\* last line is spread over exactly one second
C13_EndBoundary ==
    Interpolated =>
        \A l \in 1..Len(results) :
            LET in == results[l].timings
                out == resultWithTimings[l].timings
            IN  \A w \in 1..Len(in) :
                    LET k == Slots(in[w].markName)
                        s == in[w].timeSeconds
                        second == out[OutPos(in, w) + 1].timeSeconds
                    IN  k > 1 =>
                            /\ k * (second - s) = Span(s, StatedEnd(results, l, w))
                            /\ (l = Len(results) /\ w = Len(in)) =>
                                  k * (second - s) = OneSecond

\* a multi-syllable word that ends its line was spread up to the first timing
\* of the next line, and the multi-syllable last word of the last line over
\* one second
C13_Witness ==
    /\ Interpolated
    /\ Len(results) = 2
    /\ Len(results[1].timings) = 1
    /\ Len(results[2].timings) = 1
    /\ results[1].timings[1] =
          [timeSeconds |-> OneSecond, markName |-> <<47560, 49884, 44256>>]
    /\ results[2].timings[1] =
          [timeSeconds |-> 2 * OneSecond, markName |-> <<47560, 49884, 44256>>]
    /\ 3 * resultWithTimings[1].timings[2].timeSeconds = 4 * OneSecond
    /\ 3 * resultWithTimings[2].timings[2].timeSeconds = 7 * OneSecond


\* a non-Korean run followed by exactly one Korean syllable block
LeadingRunThenBlock(markName) ==
    /\ Len(markName) >= 2
    /\ IsHangul(markName[Len(markName)])
    /\ \A i \in 1..(Len(markName) - 1) : ~IsHangul(markName[i])

\* no Korean syllable block at all
NonKorean(markName) ==
    markName # <<>> /\ \A i \in 1..Len(markName) : ~IsHangul(markName[i])

\* C14 as stated: a word that is a leading non-Korean run followed by a
\* single Korean block, or that is purely non-Korean, is one syllable unit
\* and so is left in its line unexpanded
C14_LeadingRunAttached ==
    Interpolated =>
        \A l \in 1..Len(results) :
            \A w \in 1..Len(results[l].timings) :
                LET timing == results[l].timings[w]
                IN  (LeadingRunThenBlock(timing.markName) \/ NonKorean(timing.markName))
                        => \E j \in 1..Len(resultWithTimings[l].timings) :
                               resultWithTimings[l].timings[j] = timing

\* C14 amended: a word is cut immediately before every Korean syllable block
\* but its first character, so a non-Korean run stays attached to the block
\* that precedes it, a non-Korean run before the first block is a unit of its
\* own (a leading run followed by a single block is two units and is
\* expanded), and a purely non-Korean word is exactly one unit
C14_UnitsCutBeforeBlocks ==
    Interpolated =>
        \A l \in 1..Len(results) :
            LET in == results[l].timings
                out == resultWithTimings[l].timings
            IN  /\ Len(out) = OutPos(in, Len(in) + 1) - 1
                /\ \A w \in 1..Len(in) :
                      /\ \A i \in 1..Slots(in[w].markName) :
                            out[OutPos(in, w) + i - 1].markName = UnitAt(in[w].markName, i)
                      /\ LeadingRunThenBlock(in[w].markName) =>
                            /\ Slots(in[w].markName) = 2
                            /\ out[OutPos(in, w)].markName =
                                  SubSeq(in[w].markName, 1, Len(in[w].markName) - 1)
                            /\ out[OutPos(in, w) + 1].markName =
                                  <<in[w].markName[Len(in[w].markName)]>>
                      /\ NonKorean(in[w].markName) => out[OutPos(in, w)] = in[w]

\* a line of the three words "a가", "가a" and "ab" came out as the four
\* timings "a", "가", "가a" and "ab"
C14_Witness ==
    /\ Interpolated
    /\ \E l \in 1..Len(results) :
          /\ [w \in 1..Len(results[l].timings) |-> results[l].timings[w].markName]
                = << <<97, 44032>>, <<44032, 97>>, <<97, 98>> >>
          /\ [j \in 1..Len(resultWithTimings[l].timings) |->
                 resultWithTimings[l].timings[j].markName]
                = << <<97>>, <<44032>>, <<44032, 97>>, <<97, 98>> >>

\* C15: interpolating the interpolated lines again changes nothing, since
\* every timing it produced is a single syllable unit
C15_Idempotent ==
    Interpolated => Interpolate(resultWithTimings) = resultWithTimings

\* an interpolation that did expand a word has run
C15_Witness ==
    /\ Interpolated
    /\ resultWithTimings # results
    /\ \E l \in 1..Len(results) :
          Len(resultWithTimings[l].timings) > Len(results[l].timings)


\* ---------------------------------------------------- claims: tokenizer
\* the line holds nothing but Korean syllable blocks and single spaces
KoreanAndSingleSpaces(line) ==
    /\ \A i \in 1..Len(line) : IsHangul(line[i]) \/ line[i] = 32
    /\ \A i \in 1..(Len(line) - 1) : ~(line[i] = 32 /\ line[i + 1] = 32)

\* the syllable blocks of a line, in order, each as a string of its own
SyllableBlocks(line) ==
    LET blocks == SelectSeq(line, IsHangul)
    IN  [i \in 1..Len(blocks) |-> <<blocks[i]>>]

\* C16: for a line of Korean syllable blocks and single spaces only, the
\* tokenizer's output split on spaces is the line's sequence of syllable
\* blocks in order
C16_TokenizationReversible ==
    (pc = "download" /\ Len(lyrics) = 1 /\ KoreanAndSingleSpaces(lyrics[1])) =>
        SplitWhitespace(fullLyricsText, 1, <<>>) = SyllableBlocks(lyrics[1])

\* the line "가나 가" has been tokenized into "가 나 가"
C16_Witness ==
    /\ pc = "download"
    /\ lyrics = << <<44032, 45208, 32, 44032>> >>
    /\ fullLyricsText = <<44032, 32, 45208, 32, 44032>>


\* ------------------------------------------- claims: a hung alignment
\* C17: a run whose alignment process never exits still finishes: from the
\* moment the process is spawned the run eventually returns with its
\* connection released
C17_TimeBoxed ==
    (pc = "aligning") ~> (pc \in {"returned", "responded"} /\ connection = "released")


\* ------------------------------------------- claims: concurrent runs
\* C18: two runs in flight never touch each other's temp audio file (while
\* a run downloads or aligns, the file at its path exists and holds bytes
\* written by that run alone) and the outcome of a run that got its audio is
\* decided by its own inputs alone
C18_RunsIndependent ==
    \A r \in RunIds :
        /\ runs[r].pc \in {"downloading", "aligning"} =>
              /\ tempDir[runs[r].localPath].exists
              /\ tempDir[runs[r].localPath].writers = {r}
        /\ runs[r].result \in {"timings", "empty"} =>
              (runs[r].result = "timings" <=> runs[r].alignerOk)


\* ------------------------------------------------ claims: TTS batch
\* C19: whatever fails while one fetched row is processed, every row of the
\* batch has been handed to processSingleLine when the job finishes
C19_RowFailuresLocal ==
    ttsJob.pc = "finished" => ttsJob.attempted = Len(ttsJob.rows)


\* --------------------------------------------- claims: count mismatch
\* C20: when the number of segmented results differs from the number of
\* lines, getSyllableTimings still returns the list it built (generate goes
\* on to the update, nothing is thrown) and what generate writes through
\* updateSongTimings is exactly that list
C20_MismatchNonFatal ==
    (op = "generate" /\ mismatchWarned) =>
        /\ Len(results) # Len(lyrics)
        /\ pc \in {"persist", "returned", "responded"}
        /\ resultWithTimings = results
        /\ (persisted # <<>> => persisted[1].json = results)
        /\ (pc = "persist" => connection = "held" /\ persisted = <<>>)

\* a run of generate with one result for two lines has stored that result
C20_Witness ==
    /\ op = "generate"
    /\ mismatchWarned
    /\ Len(lyrics) = 2
    /\ Len(results) = 1
    /\ results[1].timings # <<>>
    /\ pc = "returned"
    /\ persisted # <<>>
    /\ persisted[1].json = results


\* --------------------------------------------------- claims: separators
\* the markNames a line is expected to carry: the tokens of the given lines
RECURSIVE TokensOfLines(_, _, _)
TokensOfLines(rows, a, b) ==
    IF a > b THEN <<>> ELSE LineTokens(rows, a) \o TokensOfLines(rows, a + 1, b)

\* C21: with the separator between lines i and i+1 missing, result i holds
\* the tokens of both lines in stream order and every later result j the
\* tokens of line j+1; with one separator too many after line i, result i+1
\* has no timings and every later result j holds the tokens of line j-1; the
\* scan always has a next step until it has returned
C21_DegradedSeparators ==
    /\ pc = "scan" => ENABLED NextSeg
    /\ ScanDone =>
          \A d \in Degradations(Len(lyrics)) :
              allPythonResults = EchoStream(lyrics, d) =>
                  /\ d.kind = "omit" =>
                        /\ Len(results) = Len(lyrics) - 1
                        /\ \A j \in 1..Len(results) :
                              /\ results[j].originalText = lyrics[j]
                              /\ MarkNames(results[j]) =
                                    IF j < d.at THEN LineTokens(lyrics, j)
                                    ELSE IF j = d.at
                                         THEN TokensOfLines(lyrics, j, j + 1)
                                         ELSE LineTokens(lyrics, j + 1)
                  /\ (d.kind = "extra" /\ d.at < Len(lyrics)) =>
                        /\ Len(results) = Len(lyrics)
                        /\ \A j \in 1..Len(results) :
                              /\ results[j].originalText = lyrics[j]
                              /\ MarkNames(results[j]) =
                                    IF j <= d.at THEN LineTokens(lyrics, j)
                                    ELSE IF j = d.at + 1 THEN <<>>
                                         ELSE LineTokens(lyrics, j - 1)

\* three lines were scanned from a stream that lacks the separator between
\* the first two
C21_Witness ==
    /\ ScanDone
    /\ Len(lyrics) = 3
    /\ allPythonResults = EchoStream(lyrics, [kind |-> "omit", at |-> 1])
    /\ Len(results) = 2
    /\ Len(results[1].timings) = Len(LineTokens(lyrics, 1)) + Len(LineTokens(lyrics, 2))

\* three lines were scanned from a stream with a second separator after the
\* first line
C21_WitnessExtra ==
    /\ ScanDone
    /\ Len(lyrics) = 3
    /\ allPythonResults = EchoStream(lyrics, [kind |-> "extra", at |-> 1])
    /\ results[2].timings = <<>>
    /\ results[3].timings # <<>>

RECURSIVE SpaceJoined(_, _)
SpaceJoined(timings, k) ==
    IF k = 0 THEN <<>>
    ELSE IF k = 1 THEN timings[1].markName
    ELSE SpaceJoined(timings, k - 1) \o <<32>> \o timings[k].markName

\* C23: every line result, in the list being built by the scan and in the
\* list returned (segmented, interpolated, or the failure fallback), has
\* refinedText equal to its markNames joined by single spaces in order
C23_RefinedTextJoined ==
    /\ \A i \in 1..Len(results) :
          results[i].refinedText = SpaceJoined(results[i].timings, Len(results[i].timings))
    /\ \A i \in 1..Len(resultWithTimings) :
          resultWithTimings[i].refinedText =
              SpaceJoined(resultWithTimings[i].timings, Len(resultWithTimings[i].timings))

\* an interpolated line of three timings has been returned
C23_Witness ==
    /\ ScanDone
    /\ op = "generateFallback"
    /\ pc = "returned"
    /\ \E i \in 1..Len(resultWithTimings) :
          /\ Len(results[i].timings) = 2
          /\ Len(resultWithTimings[i].timings) = 3
          /\ Len(resultWithTimings[i].refinedText) = 5


\* --------------------------------------------- claims: out-of-order times
\* C24: whatever the order of the start times, the interpolation has a value
\* (one line per line), no syllable is timed before the start of its word,
\* and a word whose end boundary lies before its start has all its syllables
\* at that start
C24_OutOfOrderTolerated ==
    /\ pc = "interpolate" =>
          Len(Interpolate(resultWithTimings)) = Len(resultWithTimings)
    /\ Interpolated =>
          \A l \in 1..Len(results) :
              LET in == results[l].timings
                  out == resultWithTimings[l].timings
              IN  \A w \in 1..Len(in) :
                      LET k == Slots(in[w].markName)
                          s == in[w].timeSeconds
                      IN  k > 1 =>
                              \A i \in 0..(k - 1) :
                                  /\ out[OutPos(in, w) + i].timeSeconds >= s
                                  /\ StatedEnd(results, l, w) < s =>
                                        out[OutPos(in, w) + i].timeSeconds = s

\* a three-syllable word at 2.0 s followed by a word at 1.0 s came out with
\* its three syllables at 2.0 s
C24_Witness ==
    /\ Interpolated
    /\ \E l \in 1..Len(results) :
          /\ Len(results[l].timings) = 2
          /\ results[l].timings[1] =
                [timeSeconds |-> 2 * OneSecond, markName |-> <<47560, 49884, 44256>>]
          /\ results[l].timings[2].timeSeconds = OneSecond
          /\ \A i \in 1..3 : resultWithTimings[l].timings[i].timeSeconds = 2 * OneSecond


\* ------------------------------------------------ claims: empty tokens
\* the stream without its empty-text tokens
HasText(pyResult) == pyResult.word # <<>>
WithoutEmpty(stream) == SelectSeq(stream, HasText)

\* C25: the iteration over a token with empty text leaves the results, the
\* current-line buffer and the line cursor as they are, and the list the scan
\* returns is the one it returns for the stream without its empty tokens
C25_EmptyTokensIgnored ==
    /\ [](ScanDone => results = Segment(WithoutEmpty(allPythonResults), lyrics))
    /\ [][(/\ pc = "scan"
           /\ scanPos < Len(allPythonResults)
           /\ allPythonResults[scanPos + 1].word = <<>>)
          => UNCHANGED <<results, currentLineTimings, lineIndex>>]_vars

\* a stream with an empty-text token between two syllables has been scanned
\* into one line of two timings
C25_Witness ==
    /\ ScanDone
    /\ Len(allPythonResults) = 3
    /\ allPythonResults[1].word = <<44032>>
    /\ allPythonResults[2].word = <<>>
    /\ allPythonResults[3].word = <<44032>>
    /\ Len(results) = 1
    /\ Len(results[1].timings) = 2

\* ------------------------------------------- claims: update keyed by text
\* the row an ElevenLabs call was handed, as it was before the call
ProcessedBefore == elevenJob.before[elevenJob.row]

\* C26: the UPDATE of ElevenLabsTTSProcessor is keyed by text.  Once a call
\* has written its result for the row it processed, every row of lyric_line
\* whose original_text equals that row's text holds the written
\* native_audio_url and syllable_timings, the processed row and its
\* duplicates alike, and every row with another text is as it was before
\* the call; a call that wrote nothing leaves the whole table as it was.
C26_UpdateKeyedByText ==
    elevenJob.pc # "idle" =>
        IF elevenJob.pc = "finished" /\ elevenJob.written # <<>>
        THEN \A i \in 1..Len(elevenJob.before) :
                IF elevenJob.before[i].original_text = ProcessedBefore.original_text
                THEN /\ elevenJob.lyric_line[i].native_audio_url = elevenJob.written[1].url
                     /\ elevenJob.lyric_line[i].syllable_timings = elevenJob.written[1].timings
                     /\ elevenJob.lyric_line[i].lyric_line_id = i
                     /\ elevenJob.lyric_line[i].original_text = elevenJob.before[i].original_text
                ELSE elevenJob.lyric_line[i] = elevenJob.before[i]
        ELSE elevenJob.lyric_line = elevenJob.before

\* a synthesized result for one row has overwritten a second row with the
\* same text, next to a row with another text
C26_Witness ==
    /\ elevenJob.pc = "finished"
    /\ elevenJob.written # <<>>
    /\ elevenJob.written[1].url # <<>>
    /\ \E j, k \in 1..Len(elevenJob.before) :
          /\ j # elevenJob.row
          /\ elevenJob.before[j].original_text = ProcessedBefore.original_text
          /\ elevenJob.lyric_line[j].native_audio_url = elevenJob.written[1].url
          /\ elevenJob.lyric_line[j] # elevenJob.before[j]
          /\ elevenJob.before[k].original_text # ProcessedBefore.original_text

\* ----------------------------------------------- claims: temp audio file
\* C27: every temp audio file a run creates is gone when the run ends.  Once
\* the service call has returned, and once the response has been sent, no
\* file created by downloadAudio is left in TEMP_DIR, whether the download
\* failed (request error or non-200 status), the alignment failed or the
\* run succeeded.
C27_TempFileGone ==
    pc \in {"returned", "responded"} => tempFile # "present"

\* ------------------------------------------------------ claims: pipeline
\* the createTTS calls of the pipeline that have been sent to the TTS
\* service and have not settled
RequestsInFlight == {r \in pipeline.inFlight : r.remote}

\* C28: PipelineService.run processes the lyric lines one after the other,
\* in either version of run.  At every moment at most one createTTS request
\* is in flight, and a line whose processing has started is preceded only by
\* lines whose processing has completed.
C28_LinesSequential ==
    pipeline.pc # "idle" =>
        /\ Cardinality(RequestsInFlight) <= 1
        /\ \A i \in pipeline.started :
              \A j \in 1..(i - 1) : j \in pipeline.completed

\* C29: the success payload is complete when it is handed over, in either
\* version of run.  At the moment run has built the payload and passed it to
\* saveDebugFile or returned it, payload.lines has one entry per fetched
\* lyric line, in lyric order, each with the words and start time of its
\* line and the translation at the same index.
C29_PayloadComplete ==
    (pipeline.pc # "idle" /\ pipeline.handed # <<>>) =>
        LET lines == pipeline.handed[1].lines
        IN  /\ Len(lines) = Len(pipeline.lyricsData)
            /\ \A i \in 1..Len(lines) :
                  /\ lines[i].words = pipeline.lyricsData[i].words
                  /\ lines[i].startTime = pipeline.lyricsData[i].startTimeMs
                  /\ lines[i].translated = pipeline.translatedLyricsTexts[i]

\* -------------------------------------------------- claims: connections
\* C30: every DB connection acquired by generate, generateFallback,
\* TTSProcessor.runJob and the ElevenLabs retryOne and runJob is released
\* exactly once before the operation finishes, on every path.  A finished
\* operation holds no connection, and generate and generateFallback, which
\* acquire before anything can fail in the runs drawn, have released theirs;
\* a connection becomes released in the very step that ends its operation,
\* and a released connection is never touched again.
C30_ConnectionsReleasedOnce ==
    /\ [](/\ pc = "returned" => connection = "released"
          /\ pc = "responded" => connection # "held"
          /\ ttsJob.pc = "finished" => ttsJob.connection # "held"
          /\ elevenJob.pc = "finished" => elevenJob.connection # "held")
    /\ [][/\ connection = "released" => connection' = "released"
          /\ ttsJob.connection = "released" => ttsJob'.connection = "released"
          /\ elevenJob.connection = "released" => elevenJob'.connection = "released"
          /\ (connection # "released" /\ connection' = "released") => pc' = "returned"
          /\ (ttsJob.connection # "released" /\ ttsJob'.connection = "released")
                => ttsJob'.pc = "finished"
          /\ (elevenJob.connection # "released" /\ elevenJob'.connection = "released")
                => elevenJob'.pc = "finished"]_vars

\* generate has returned after the alignment ran and updateSongTimings threw
C30_Witness ==
    /\ pc = "returned"
    /\ connection = "released"
    /\ outcome.state # "pending"
    /\ persisted = <<>>

\* ------------------------------------------------ claims: row lifecycle
\* C31: a row is handled once by TTSProcessor.  Every row for which
\* processSingleLine has returned (skip, success or failure marked "ERROR")
\* has syllable_timings that is not NULL and a native_audio_url other than
\* 'PENDING_TTS_URL', so that the selection of fetchLyricsToProcess no
\* longer matches it; and over runJob executions that follow one another no
\* row is handed to processSingleLine more than once.
C31_RowProcessedOnce ==
    ttsJob.pc = "cron" =>
        /\ \A id \in ttsJob.returned :
              /\ ttsJob.lyric_line[id].syllable_timings # <<>>
              /\ ttsJob.lyric_line[id].native_audio_url # PendingUrl
              /\ ~SelectedForTts(ttsJob.lyric_line[id])
        /\ \A id \in 1..Len(ttsJob.lyric_line) : ttsJob.processed[id] <= 1

\* ------------------------------------------- claims: ElevenLabs progress
\* C32: the ElevenLabs job gets through its rows.  Over runJob executions
\* that follow one another, every row that matches the selection
\* (native_audio_url containing 'google-lyrics' or 'RETRY') and whose own
\* synthesis does not fail is eventually processed and leaves the selection,
\* whatever happens to the rows whose synthesis keeps failing.
C32_PendingRowsServed ==
    \A i \in 1..MaxElevenRows :
        [](/\ i \notin elevenJob.failing
           /\ Selected(elevenJob.lyric_line[i])
           => <>(~Selected(elevenJob.lyric_line[i])))

\* ------------------------------------------ claims: overlapping executions
\* the rows execution k has handed to processSingleLine
Handled(k) == {ttsJob.jobs[k].rows[i] : i \in 1..ttsJob.jobs[k].attempted}

\* C33: executions fired by the schedule do not overlap on a row.  When two
\* runJob executions are in progress at the same time, no lyric row has
\* been fetched and processed by both of them.
C33_NoRowInTwoExecutions ==
    ttsJob.pc = "cron" =>
        \A k, l \in 1..Len(ttsJob.jobs) :
            (k # l /\ ttsJob.jobs[k].pc = "loop" /\ ttsJob.jobs[l].pc = "loop")
                => Handled(k) \cap Handled(l) = {}

\* --------------------------------------------------- claims: audio cache
\* C34: createTTS synthesizes each distinct trimmed text at most once.  No
\* two requests for the same text are at the TTS service at the same time,
\* no request is at the service for a text the cache already holds, and the
\* cache holds only texts whose upload has finished: never the empty text or
\* a text without Korean, for which createTTS answers "".
C34_SynthesizedOnce ==
    pipeline.pc # "idle" =>
        /\ \A r1, r2 \in RequestsInFlight : r1.text = r2.text => r1 = r2
        /\ \A r \in RequestsInFlight : r.text \notin pipeline.audioCache
        /\ \A text \in pipeline.audioCache : text # <<>> /\ hasKorean(text)

\* ------------------------------------------------ claims: pipeline result
\* C35: the version of PipelineService.run that returns a result never
\* throws.  Once it has ended it has returned a payload; after any failure
\* (lyric fetch, translation, romanization or TTS) the payload is a fail
\* result with the request's songId and a non-empty error message and with
\* no lines, after success it has no error key; and POST /create-content
\* has answered 422 for the fail results and 200 for the others.
C35_FailResultWellFormed ==
    (pipeline.pc \in {"finished", "responded"} /\ pipeline.version = "forOf") =>
        /\ pipeline.returned # <<>>
        /\ pipeline.result = "fail" =>
              /\ DOMAIN pipeline.returned[1] = {"songId", "error"}
              /\ pipeline.returned[1].songId = pipeline.songId
              /\ pipeline.returned[1].error # ""
        /\ pipeline.result = "success" => DOMAIN pipeline.returned[1] = {"lines"}
        /\ pipeline.pc = "responded" =>
              pipeline.status = IF pipeline.result = "fail" THEN 422 ELSE 200


\* ------------------------------------------- tokenizer, aligner, segmenter
\* the lines of a song: one and two syllables, brackets glued to a syllable
\* beside a Latin word, an empty line, a blank line, the separator literal
RoundLineTexts == { LineGa, <<44032, 45208>>, LineMixed, LineEmpty, LineBlank, LineSentinel }

RoundLyrics == UNION { [1..n -> RoundLineTexts] : n \in 1..MaxSegLines }

\* the array of an aligner that returns every whitespace-delimited token of
\* the submitted text once and in order, one second between its elements
FaithfulStream(text) ==
    LET words == SplitWhitespace(text, 1, <<>>)
    IN  [k \in 1..Len(words) |-> [word |-> words[k], start |-> (k - 1) * OneSecond]]

\* generate from the text it builds to the loop of getSyllableTimings, the
\* aligner having returned the submitted tokens
InitRound ==
    /\ op = "generate"
    /\ requestValid = TRUE
    /\ songFound = TRUE
    /\ lyrics \in RoundLyrics
    /\ pc = "scan"
    /\ connection = "held"
    /\ fullLyricsText = FullLyricsTextRefined(lyrics)
    /\ tempFile = "deleted"
    /\ jsonData = <<>>
    /\ closeCode = <<0>>
    /\ procErrored = FALSE
    /\ allPythonResults = FaithfulStream(fullLyricsText)
    /\ outcome = Resolved(allPythonResults)
    /\ scanPos = 0
    /\ results = ScanStart.results
    /\ currentLineTimings = ScanStart.currentLineTimings
    /\ lineIndex = ScanStart.lineIndex
    /\ mismatchWarned = FALSE
    /\ resultWithTimings = <<>>
    /\ persisted = <<>>
    /\ httpStatus = 0
    /\ OthersIdle

NextRound ==
    \/ ScanToken
    \/ ScanFinish

SpecRound == InitRound /\ [][NextRound]_vars

\* no lyric line contains the separator literal
NoSentinelLine == \A i \in 1..Len(lyrics) : ~Contains(lyrics[i], LINE_SEPARATOR)

\* the tokenizer finds a token in the last line
LastLineHasToken == Len(lyrics) > 0 /\ MatchTokens(lyrics[Len(lyrics)], 1) # <<>>

\* C36: when the aligner returns every submitted whitespace-delimited token
\* once and in order, no lyric line contains the separator literal and the
\* last line yields a token, the segmenter returns one result per line and
\* the refinedText of result i is the tokenizer's output for line i.
C36_RoundTrip ==
    (op = "generate" /\ AlignerEchoed /\ NoSentinelLine /\ LastLineHasToken)
    => /\ Len(resultWithTimings) = Len(lyrics)
       /\ \A i \in 1..Len(lyrics) :
             resultWithTimings[i].refinedText = refineTextForPython(lyrics[i])

\* three lines have gone round: brackets glued to a syllable, then a line
\* without a token, then a line with one
C36_Witness ==
    /\ op = "generate" /\ AlignerEchoed /\ NoSentinelLine /\ LastLineHasToken
    /\ Len(lyrics) = 3
    /\ lyrics[1] = LineMixed
    /\ MatchTokens(lyrics[2], 1) = <<>>
    /\ Len(resultWithTimings) = 3
    /\ Len(resultWithTimings[1].timings) = 4
    /\ resultWithTimings[2].timings = <<>>


\* ------------------------------------- claims: interpolation keeps structure
\* the markNames of the first k timings written one after the other
RECURSIVE MarkNamesConcat(_, _)
MarkNamesConcat(timings, k) ==
    IF k = 0 THEN <<>> ELSE MarkNamesConcat(timings, k - 1) \o timings[k].markName

\* C37: interpolation returns as many lines as it was given, in the same
\* order and with the same originalText; in every line the output markNames
\* written one after the other give the input markNames written one after
\* the other, and the first syllable of every expanded word has the
\* timeSeconds of the word.
C37_StructurePreserved ==
    Interpolated =>
        /\ Len(resultWithTimings) = Len(results)
        /\ \A l \in 1..Len(results) :
              LET in == results[l].timings
                  out == resultWithTimings[l].timings
              IN  /\ resultWithTimings[l].originalText = results[l].originalText
                  /\ MarkNamesConcat(out, Len(out)) = MarkNamesConcat(in, Len(in))
                  /\ \A w \in 1..Len(in) :
                        Slots(in[w].markName) > 1 =>
                            /\ OutPos(in, w) <= Len(out)
                            /\ out[OutPos(in, w)].timeSeconds = in[w].timeSeconds

\* two lines have been interpolated, the second holding a three-syllable
\* word after a word that is cut once, with time between them
C37_Witness ==
    /\ Interpolated
    /\ Len(results) = 2
    /\ Len(results[2].timings) = 2
    /\ results[2].timings[1].markName = <<97, 44032>>
    /\ Slots(results[2].timings[2].markName) = 3
    /\ results[2].timings[1].timeSeconds < results[2].timings[2].timeSeconds
    /\ Len(resultWithTimings[2].timings) = 5
    /\ resultWithTimings[2].timings[3].timeSeconds = results[2].timings[2].timeSeconds


\* ------------------------------------------------------- translateBatch
\* the texts of the lyric lines handed over: "가", "나a", "a", a blank, "|"
\* and the single consonant "ㄱ"
BatchTexts == { <<44032>>, <<45208, 97>>, <<97>>, <<32>>, <<124>>, <<JamoFirst>> }

BatchInputs == UNION { [1..n -> BatchTexts] : n \in 0..MaxBatch }

\* the texts the DeepL client may return: "", "A" and "B"
DeeplTexts == { <<>>, <<65>>, <<66>> }

\* [...new Set(texts)]: the first occurrence of every text, in order
RECURSIVE uniqueLyricsSet(_)
uniqueLyricsSet(texts) ==
    IF texts = <<>> THEN <<>>
    ELSE LET front == uniqueLyricsSet(SubSeq(texts, 1, Len(texts) - 1))
             last == texts[Len(texts)]
         IN  IF \E k \in 1..Len(front) : front[k] = last THEN front
             ELSE Append(front, last)

\* .filter(text => text.trim() !== "").filter(text => this.hasKorean(text))
RECURSIVE KeepTranslatable(_)
KeepTranslatable(list) ==
    IF list = <<>> THEN <<>>
    ELSE IF Trim(Head(list)) # <<>> /\ hasKorean(Head(list))
         THEN <<Head(list)>> \o KeepTranslatable(Tail(list))
         ELSE KeepTranslatable(Tail(list))

lyricsToTranslate(texts) == KeepTranslatable(uniqueLyricsSet(texts))

\* translationMap.get(text) after the forEach that sets
\* results[index].text for lyricsToTranslate[index]: <<>> stands for
\* undefined, <<t>> for the entry t
translationMapGet(sent, received, text) ==
    IF \E k \in 1..Len(sent) : sent[k] = text
    THEN <<received[CHOOSE k \in 1..Len(sent) :
                        /\ sent[k] = text
                        /\ \A j \in (k + 1)..Len(sent) : sent[j] # text]>>
    ELSE <<>>

\* texts.map(text => translationMap.get(text) || text)
BatchOutput(texts, sent, received) ==
    [i \in 1..Len(texts) |->
        LET got == translationMapGet(sent, received, texts[i])
        IN  IF got # <<>> /\ got[1] # <<>> THEN got[1] ELSE texts[i]]

\* translateBatch has been called with texts
InitBatch ==
    /\ op = "generate"
    /\ requestValid = TRUE
    /\ songFound = TRUE
    /\ lyrics = <<LineGa>>
    /\ pc = "translateBatch"
    /\ connection = "none"
    /\ fullLyricsText = <<>>
    /\ tempFile = "none"
    /\ jsonData = <<>>
    /\ closeCode = <<>>
    /\ procErrored = FALSE
    /\ outcome = Pending
    /\ allPythonResults = <<>>
    /\ scanPos = 0
    /\ results = <<>>
    /\ currentLineTimings = <<>>
    /\ lineIndex = 0
    /\ mismatchWarned = FALSE
    /\ resultWithTimings = <<>>
    /\ persisted = <<>>
    /\ httpStatus = 0
    /\ now = 0
    /\ runs = <<>>
    /\ tempDir = {}
    /\ ttsJob = NoJob
    /\ elevenJob = NoElevenJob
    /\ \E texts \in BatchInputs :
          pipeline = [pc |-> "called", texts |-> texts, requests |-> <<>>,
                      received |-> <<>>, returned |-> <<>>, thrown |-> FALSE]

\* up to the await: the set, the two filters, the request to the client
BatchRequest ==
    /\ pipeline.pc = "called"
    /\ pipeline' = [pipeline EXCEPT
          !.pc = "awaiting",
          !.requests = Append(pipeline.requests, lyricsToTranslate(pipeline.texts))]
    /\ UNCHANGED <<runVars, now, runs, tempDir, ttsJob, elevenJob>>

\* the client resolves with one TextResult per text sent: the map is
\* filled and the mapped texts are returned
BatchResolve ==
    /\ pipeline.pc = "awaiting"
    /\ LET sent == pipeline.requests[Len(pipeline.requests)]
       IN  \E received \in [1..Len(sent) -> DeeplTexts] :
              pipeline' = [pipeline EXCEPT
                  !.pc = "returned",
                  !.received = received,
                  !.returned = <<BatchOutput(pipeline.texts, sent, received)>>]
    /\ UNCHANGED <<runVars, now, runs, tempDir, ttsJob, elevenJob>>

\* the client rejects: the catch block throws "DeepL batch translation
\* failed: ..." and nothing is returned
BatchReject ==
    /\ pipeline.pc = "awaiting"
    /\ pipeline' = [pipeline EXCEPT !.pc = "thrown", !.thrown = TRUE]
    /\ UNCHANGED <<runVars, now, runs, tempDir, ttsJob, elevenJob>>

NextBatch ==
    \/ BatchRequest
    \/ BatchResolve
    \/ BatchReject

SpecBatch == InitBatch /\ [][NextBatch]_vars

\* the text has a Hangul syllable or a Hangul letter
ContainsHangul(text) ==
    \E i \in 1..Len(text) :
        IsHangul(text[i]) \/ (text[i] >= JamoFirst /\ text[i] <= JamoLast)

\* the places of the text in the one request made
PlacesSent(text) ==
    {k \in 1..Len(pipeline.requests[1]) : pipeline.requests[1][k] = text}

\* the length and order of the input are kept: every text that was not sent
\* comes back as it is, every text that was sent comes back as its
\* translation or, the translation being empty, as it is
BatchShapeKept ==
    pipeline.pc = "returned" =>
        /\ Len(pipeline.returned[1]) = Len(pipeline.texts)
        /\ \A i \in 1..Len(pipeline.texts) :
              LET text == pipeline.texts[i]
              IN  IF PlacesSent(text) = {}
                  THEN pipeline.returned[1][i] = text
                  ELSE \A k \in PlacesSent(text) :
                          pipeline.returned[1][i] =
                              IF pipeline.received[k] = <<>> THEN text
                              ELSE pipeline.received[k]

\* one request is made, and it holds every text that is not blank and
\* passes hasKorean once and no other text
BatchSentOnce ==
    pipeline.pc \in {"awaiting", "returned", "thrown"} =>
        /\ Len(pipeline.requests) = 1
        /\ \A t \in BatchTexts :
              Cardinality(PlacesSent(t)) =
                  IF /\ \E i \in 1..Len(pipeline.texts) : pipeline.texts[i] = t
                     /\ Trim(t) # <<>>
                     /\ hasKorean(t)
                  THEN 1 ELSE 0

\* C38: the array translateBatch returns has the length of texts; at place
\* i stands the translation the client returned for texts[i] when texts[i]
\* is not blank and contains Hangul, and texts[i] otherwise; a text that
\* occurs several times is sent once and gets one translation.
C38_BatchTranslated ==
    pipeline.pc = "returned" =>
        /\ Len(pipeline.requests) = 1
        /\ Len(pipeline.returned[1]) = Len(pipeline.texts)
        /\ \A i \in 1..Len(pipeline.texts) :
              LET text == pipeline.texts[i]
              IN  IF Trim(text) # <<>> /\ ContainsHangul(text)
                  THEN /\ Cardinality(PlacesSent(text)) = 1
                       /\ \A k \in PlacesSent(text) :
                              pipeline.returned[1][i] = pipeline.received[k]
                  ELSE pipeline.returned[1][i] = text

====
